---- MODULE Spec2Model ----
(***************************************************************************)
(* A model of the `credentials` crate: the chained backend                 *)
(* (src/chained.rs), the environment backend (src/envvar.rs), the Vault    *)
(* backend with its per-path secret cache and token acquisition           *)
(* (src/vault/mod.rs, src/vault/kubernetes.rs), the Client facade and the  *)
(* process-wide default client (src/lib.rs).                               *)
(*                                                                         *)
(* Three specifications share the same resolution steps:                   *)
(*   Spec        a client owned by one caller, built by                    *)
(*               Client::new(options);                                     *)
(*   SpecChain   a chain built the way the tests of chained.rs build it    *)
(*               (Client::new + add), over any short list of backends;     *)
(*   SpecGlobal  the process-wide CLIENT used by concurrent tasks through  *)
(*               credentials::var / credentials::file.                     *)
(*   SpecGlobalFair is SpecGlobal with the fairness of the tasks' steps    *)
(*               and of the lock, for the liveness of the calls;           *)
(*   SpecGlobalBuiltIn is SpecGlobal with Secretfile::set_built_in called  *)
(*               at any moment.                                            *)
(* Two more cover the Secretfile (src/secretfile.rs):                      *)
(*   SpecBuiltIn concurrent tasks calling Secretfile::set_built_in and     *)
(*               Secretfile::default;                                      *)
(*   SpecParse   Secretfile::from_str applied to short texts.              *)
(***************************************************************************)
EXTENDS Integers, Sequences, FiniteSets, TLC

(***************************************************************************)
(* Bounds of the model.                                                    *)
(***************************************************************************)
NProcs == 2        \* concurrent tasks calling credentials::var / file
MaxGen == 1        \* times the remote secrets are rotated
MaxBackends == 2   \* length of a chain built with Client::new + add
MaxGets == 2       \* the count of GETs per path is kept up to this value
MaxLines == 2      \* lines of a Secretfile text handed to from_str

Procs == 1..NProcs

(***************************************************************************)
(* Option<T>: None is the empty sequence, Some(x) the one-element one.     *)
(***************************************************************************)
None == <<>>
Some(x) == <<x>>
IsSome(o) == Len(o) = 1
Unwrap(o) == o[1]

(***************************************************************************)
(* Result<T>.                                                              *)
(***************************************************************************)
Ok(v) == [ok |-> TRUE, value |-> v]
Err(e) == [ok |-> FALSE, err |-> e]

(***************************************************************************)
(* String values.  A value is a text and the generation of the remote      *)
(* secret it was read from (0 for anything that is not a remote secret),   *)
(* so that the values of two rotations of a dynamic credential differ.     *)
(***************************************************************************)
Str(t) == [text |-> t, gen |-> 0]
StrGen(t, g) == [text |-> t, gen |-> g]

(***************************************************************************)
(* errors.rs: the variants of Error the modelled code produces.            *)
(***************************************************************************)
Credential(n, e) == [kind |-> "Credential", name |-> n, source |-> e]
FileRead(p, e) == [kind |-> "FileRead", path |-> p, source |-> e]
Io(p) == [kind |-> "Io", path |-> p]
MissingEntry(n) == [kind |-> "MissingEntry", name |-> n]
MissingKeyInPath(p) == [kind |-> "MissingKeyInPath", path |-> p]
MissingKeyInSecret(s, k) == [kind |-> "MissingKeyInSecret", secret |-> s, key |-> k]
MissingVaultAddr == [kind |-> "MissingVaultAddr"]
MissingVaultToken(e) == [kind |-> "MissingVaultToken", source |-> e]
NoBackend == [kind |-> "NoBackend"]
NoHomeDirectory == [kind |-> "NoHomeDirectory"]
NonUnicodePath(p) == [kind |-> "NonUnicodePath", path |-> p]
Other(m) == [kind |-> "Other", msg |-> m]
ParseErr(input) == [kind |-> "Parse", input |-> input]
SecretfileErr(e) == [kind |-> "Secretfile", source |-> e]
UndefinedEnvironmentVariable(n) == [kind |-> "UndefinedEnvironmentVariable", name |-> n]
UnexpectedHttpStatus(s, b) == [kind |-> "UnexpectedHttpStatus", status |-> s, body |-> b]
UnparseableUrl(u) == [kind |-> "UnparseableUrl", url |-> u]
UrlErr(u, e) == [kind |-> "Url", url |-> u, source |-> e]

(***************************************************************************)
(* secretfile.rs: Location and Secretfile (the two maps).                  *)
(***************************************************************************)
Path(p) == [tag |-> "Path", path |-> p]
PathWithKey(p, k) == [tag |-> "PathWithKey", path |-> p, key |-> k]

\* The Secretfile of chained.rs's test: Secretfile::from_str("").
EmptySecretfile == [varmap |-> <<>>, filemap |-> <<>>]

\* A Secretfile with two keys of one secret, a key the secret lacks, a
\* location without key, and a file entry.
FooSecretfile ==
    [varmap |-> [n \in {"FOO_USERNAME", "FOO_PASSWORD", "FOO_EXTRA", "FOO_USERNAME2"} |->
                    CASE n = "FOO_USERNAME" -> PathWithKey("secret/foo", "username")
                      [] n = "FOO_PASSWORD" -> PathWithKey("secret/foo", "password")
                      [] n = "FOO_EXTRA" -> PathWithKey("secret/foo", "extra")
                      [] n = "FOO_USERNAME2" -> Path("foo_username")],
     filemap |-> [n \in {"key.pem"} |-> PathWithKey("secret/ssl", "key_pem")]]

Secretfiles == {EmptySecretfile, FooSecretfile}

\* impl SecretfileLookup for Secretfile: BTreeMap::get on the sub-map.
SecretfileVar(sf, name) ==
    IF name \in DOMAIN sf.varmap THEN Some(sf.varmap[name]) ELSE None

SecretfileFile(sf, name) ==
    IF name \in DOMAIN sf.filemap THEN Some(sf.filemap[name]) ELSE None

(***************************************************************************)
(* What callers ask for.                                                   *)
(***************************************************************************)
VarNames ==
    {"FOO_USERNAME", "FOO_PASSWORD", "FOO_EXTRA", "FOO_USERNAME2", "DUMMY", "NOSUCHVAR", "key.pem"}
FileNames == {"key.pem", "dummy.txt", "Cargo.toml"}
Requests == [kind : {"var"}, name : VarNames] \cup [kind : {"file"}, name : FileNames]
NoRequest == [kind |-> "none", name |-> ""]

\* A path with a byte that is not UTF-8, what Path::to_str makes of a path
\* (None for that one) and what Path::display prints (the byte replaced).
NonUnicodeName == "key<0xFF>.pem"
PathToStr(path) == IF path = NonUnicodeName THEN None ELSE Some(path)
PathDisplay(path) == IF path = NonUnicodeName THEN "key<U+FFFD>.pem" ELSE path

\* What callers ask of lib.rs's Client: file takes any path.
ClientRequests == Requests \cup {[kind |-> "file", name |-> NonUnicodeName]}

(***************************************************************************)
(* The process environment and the local file system.                      *)
(***************************************************************************)
GoodAddr == "http://vault:8200"
BadAddr == "not a url"

\* The values each environment variable of the model can take.
EnvValues(n) ==
    CASE n = "VAULT_ADDR" -> {GoodAddr, BadAddr}
      [] n = "VAULT_TOKEN" -> {"token-from-env"}
      [] n = "VAULT_KUBERNETES_ROLE" -> {"role"}
      [] n = "FOO_USERNAME" -> {"user"}
      [] OTHER -> {}

EnvNames == {"VAULT_ADDR", "VAULT_TOKEN", "VAULT_KUBERNETES_ROLE", "FOO_USERNAME"}

EnvSpace(names) ==
    UNION {{e \in [S -> UNION {EnvValues(n) : n \in S}] : \A n \in S : e[n] \in EnvValues(n)} :
           S \in SUBSET names}

\* Local files the env backend can read.
LocalFiles == {"Cargo.toml"}

(***************************************************************************)
(* envvar.rs: the environment backend.  It ignores the Secretfile.         *)
(***************************************************************************)
\* Client::var: env::var(credential), an undefined variable is an error.
EnvVar(e, credential) ==
    IF credential \in DOMAIN e
    THEN Ok(Str(e[credential]))
    ELSE Err(UndefinedEnvironmentVariable(credential))

\* Client::file: fs::File::open(path) and read_to_string.
EnvFile(path) ==
    IF path \in LocalFiles THEN Ok(Str("contents of local file")) ELSE Err(Io(path))

(***************************************************************************)
(* chained.rs, mod tests: DummyClient.                                     *)
(***************************************************************************)
DummyVar(credential) ==
    IF credential = "DUMMY" THEN Ok(Str("dummy")) ELSE Err(Other("Credential not supported"))

DummyFile(path) ==
    IF path = "dummy.txt" THEN Ok(Str("dummy2")) ELSE Err(Other("Credential not supported"))

(***************************************************************************)
(* The remote store.  secret/foo is served flat (KVv1), secret/ssl in the  *)
(* nested KVv2 shape; every other path is unknown to the server.           *)
(***************************************************************************)
StorePaths == {"secret/foo", "secret/ssl"}

ServerKeys(path) ==
    CASE path = "secret/foo" -> {"username", "password"}
      [] path = "secret/ssl" -> {"key_pem"}
      [] OTHER -> {}

(***************************************************************************)
(* vault/mod.rs, Secret and SecretData: the JSON of a response body and    *)
(* what serde makes of it.  A JSON value is a string, a number or an       *)
(* object, the object a function from its keys to values.                  *)
(***************************************************************************)
JStr(v) == [t |-> "str", v |-> v]
JNum(n) == [t |-> "num", n |-> n]
JObj(m) == [t |-> "obj", m |-> m]

\* BTreeMap<String, String>: an object whose values are all strings.
DecodeStringMap(j) ==
    IF j.t = "obj" /\ \A k \in DOMAIN j.m : j.m[k].t = "str"
    THEN Some([k \in DOMAIN j.m |-> j.m[k].v])
    ELSE None

\* A variant that knows the flat shape only.
DecodeSecretDataGenericOnly(j) ==
    IF IsSome(DecodeStringMap(j))
    THEN Some([shape |-> "Generic", map |-> Unwrap(DecodeStringMap(j))])
    ELSE None

\* SecretData, untagged: Generic is tried first, then KVv2, whose fields
\* other than `data` are passed over.
DecodeSecretData(j) ==
    IF IsSome(DecodeStringMap(j))
    THEN Some([shape |-> "Generic", map |-> Unwrap(DecodeStringMap(j))])
    ELSE IF j.t = "obj" /\ "data" \in DOMAIN j.m /\ IsSome(DecodeStringMap(j.m["data"]))
         THEN Some([shape |-> "KVv2", map |-> Unwrap(DecodeStringMap(j.m["data"]))])
         ELSE None

\* Secret: `data` is required, lease_duration is 0 when the body has none.
DecodeSecret(j) ==
    IF /\ j.t = "obj"
       /\ "data" \in DOMAIN j.m
       /\ IsSome(DecodeSecretData(j.m["data"]))
       /\ "lease_duration" \in DOMAIN j.m => j.m["lease_duration"].t = "num"
    THEN Some([data |-> Unwrap(DecodeSecretData(j.m["data"])),
               lease_duration |-> IF "lease_duration" \in DOMAIN j.m
                                  THEN j.m["lease_duration"].n
                                  ELSE 0])
    ELSE None

\* The two shapes a secret comes in: the KVv1 and Cubbyhole engines send
\* {data: m}, the KVv2 engine {data: {data: m, metadata: ...}}.  The store
\* serves secret/ssl from a KVv2 engine and secret/foo from either.
WireShapes(path) == IF path = "secret/ssl" THEN {"KVv2"} ELSE {"Generic", "KVv2"}

\* The key-value map the server holds at `path` in generation g.
ServerMap(path, g) == [k \in ServerKeys(path) |-> JStr(StrGen(k, g))]

\* The body the server sends for `path` in generation g, in either shape.
ServerJson(path, g, shape) ==
    IF shape = "Generic"
    THEN JObj([data |-> JObj(ServerMap(path, g)), lease_duration |-> JNum(2592000)])
    ELSE JObj([data |-> JObj([data |-> JObj(ServerMap(path, g)),
                              metadata |-> JObj([version |-> JNum(g)])])])

\* The Secret of `path` in generation g as the flat shape decodes.
ServerSecret(path, g) == Unwrap(DecodeSecret(ServerJson(path, g, "Generic")))

\* str::trim on a body given as a sequence of tokens: whitespace tokens are
\* dropped at both ends.
Whitespace == {" ", "\n", "\t"}

RECURSIVE TrimStart(_)
TrimStart(b) ==
    IF b # <<>> /\ Head(b) \in Whitespace THEN TrimStart(Tail(b)) ELSE b

RECURSIVE TrimEnd(_)
TrimEnd(b) ==
    IF b # <<>> /\ b[Len(b)] \in Whitespace THEN TrimEnd(SubSeq(b, 1, Len(b) - 1)) ELSE b

Trim(b) == TrimEnd(TrimStart(b))

\* What a GET {addr}/v1/{path} can bring back while the server is in
\* generation g: no response at all, a status with a body, or a status and
\* a body that cannot be read to its end; `json` is the Secret the body
\* decodes to, if it decodes.
Responses(path, g) ==
    {[kind |-> "transport"],
     [kind |-> "http", status |-> 403, body |-> <<" ", "permission denied", "\n">>, json |-> None],
     [kind |-> "http", status |-> 200, body |-> <<"not json">>, json |-> None],
     [kind |-> "cut", status |-> 500]}
    \cup (IF path \in StorePaths
          THEN {[kind |-> "http", status |-> 200, body |-> <<"secret json">>,
                 json |-> DecodeSecret(ServerJson(path, g, shape))] : shape \in WireShapes(path)}
               \cup {[kind |-> "http", status |-> 503, body |-> <<"\t", "secret json", " ">>,
                       json |-> DecodeSecret(ServerJson(path, g, "Generic"))]}
          ELSE {[kind |-> "http", status |-> 404, body |-> <<"\n">>, json |-> None]})

IsSuccess(status) == status >= 200 /\ status <= 299

\* A variant that looks into the flat shape only.
SecretDataGetGenericOnly(data, key) ==
    IF data.shape = "Generic" /\ key \in DOMAIN data.map THEN Some(data.map[key]) ELSE None

\* SecretData::get: one arm for the map of either shape.
SecretDataGet(data, key) ==
    IF key \in DOMAIN data.map THEN Some(data.map[key]) ELSE None

\* A variant that puts the body in the error as it came.
GetSecretRawBody(addr, path, resp) ==
    IF resp.kind = "transport"
    THEN Err(UrlErr(<<addr, "v1/", path>>, Other("send failed")))
    ELSE IF resp.kind = "cut"
         THEN Err(UrlErr(<<addr, "v1/", path>>, Other("error reading response body")))
         ELSE IF IsSuccess(resp.status)
              THEN IF IsSome(resp.json)
                   THEN Ok(Unwrap(resp.json))
                   ELSE Err(UrlErr(<<addr, "v1/", path>>, Other("error decoding response body")))
              ELSE Err(UrlErr(<<addr, "v1/", path>>,
                              UnexpectedHttpStatus(resp.status, resp.body)))

\* Client::get_secret, from the response on: the URL wraps every error.  A
\* body that cannot be read fails json() and text() alike.
GetSecret(addr, path, resp) ==
    LET url == <<addr, "v1/", path>>
    IN  IF resp.kind = "transport"
        THEN Err(UrlErr(url, Other("send failed")))
        ELSE IF resp.kind = "cut"
             THEN Err(UrlErr(url, Other("error reading response body")))
             ELSE IF IsSuccess(resp.status)
                  THEN IF IsSome(resp.json)
                       THEN Ok(Unwrap(resp.json))
                       ELSE Err(UrlErr(url, Other("error decoding response body")))
                  ELSE Err(UrlErr(url, UnexpectedHttpStatus(resp.status, Trim(resp.body))))

(***************************************************************************)
(* vault/mod.rs: the Vault backend.  `gets` and `oks` are not fields of    *)
(* the code: they count, per path and up to MaxGets, the GETs this         *)
(* instance has sent and those of them that brought a secret back.         *)
(***************************************************************************)
\* Client::new: an empty cache.
VaultNew(addr, token) ==
    [kind |-> "vault", addr |-> addr, token |-> token, secrets |-> <<>>,
     gets |-> <<>>, oks |-> <<>>]

Count(f, path) == IF path \in DOMAIN f THEN f[path] ELSE 0

CountUp(f, path) ==
    [q \in DOMAIN f \cup {path} |->
        IF q = path
        THEN IF Count(f, path) < MaxGets THEN Count(f, path) + 1 ELSE MaxGets
        ELSE f[q]]

\* Variants of the cache test: no test at all, and a test of the key
\* instead of the path.
GetLocNeedsFetchAlways(b, loc) ==
    IsSome(loc) /\ Unwrap(loc).tag = "PathWithKey"

GetLocNeedsFetchKey(b, loc) ==
    /\ IsSome(loc)
    /\ Unwrap(loc).tag = "PathWithKey"
    /\ \/ Unwrap(loc).path \notin DOMAIN b.secrets
       \/ Unwrap(loc).key \notin DOMAIN b.secrets[Unwrap(loc).path].data.map

\* A variant that fetches for a location without key too.
GetLocNeedsFetchAnyLocation(b, loc) ==
    IsSome(loc) /\ Unwrap(loc).path \notin DOMAIN b.secrets

\* get_loc, line 185: a PathWithKey whose path is not in the cache is fetched.
GetLocNeedsFetch(b, loc) ==
    /\ IsSome(loc)
    /\ Unwrap(loc).tag = "PathWithKey"
    /\ Unwrap(loc).path \notin DOMAIN b.secrets

\* A variant that keeps one secret only.
CacheInsertSingle(secrets, path, secret) == [q \in {path} |-> secret]

\* get_loc, line 187: BTreeMap::insert.
CacheInsert(secrets, path, secret) ==
    [q \in DOMAIN secrets \cup {path} |-> IF q = path THEN secret ELSE secrets[q]]

\* The GET is on its way: one more for this path.
CountGet(b, path) == [b EXCEPT !.gets = CountUp(b.gets, path)]

\* A variant whose error for a key the secret lacks names the path alone.
GetLocLookupPathOnly(b, searched_for, loc) ==
    IF ~IsSome(loc)
    THEN Err(MissingEntry(searched_for))
    ELSE IF Unwrap(loc).tag = "PathWithKey"
            /\ IsSome(SecretDataGet(b.secrets[Unwrap(loc).path].data, Unwrap(loc).key))
         THEN Ok(Unwrap(SecretDataGet(b.secrets[Unwrap(loc).path].data, Unwrap(loc).key)))
         ELSE Err(MissingKeyInPath(Unwrap(loc).path))

\* get_loc, lines 175-178 and 190-206: no entry, a path without key, or the
\* key looked up in the cached secret.
GetLocLookup(b, searched_for, loc) ==
    IF ~IsSome(loc)
    THEN Err(MissingEntry(searched_for))
    ELSE LET l == Unwrap(loc)
         IN  IF l.tag = "Path"
             THEN Err(MissingKeyInPath(l.path))
             ELSE LET v == SecretDataGet(b.secrets[l.path].data, l.key)
                  IN  IF IsSome(v) THEN Ok(Unwrap(v)) ELSE Err(MissingKeyInSecret(l.path, l.key))

\* A variant that remembers a failed fetch as a secret without keys.
AfterFetchCachesFailure(b, path, fetched) ==
    IF fetched.ok
    THEN [b EXCEPT !.secrets = CacheInsert(b.secrets, path, fetched.value),
                   !.oks = CountUp(b.oks, path)]
    ELSE [b EXCEPT !.secrets = CacheInsert(b.secrets, path,
                                           [data |-> [shape |-> "Generic", map |-> <<>>],
                                            lease_duration |-> 0])]

\* get_loc, lines 186-188: the fetched secret is inserted, an error leaves
\* the cache as it was.
AfterFetch(b, path, fetched) ==
    IF fetched.ok
    THEN [b EXCEPT !.secrets = CacheInsert(b.secrets, path, fetched.value),
                   !.oks = CountUp(b.oks, path)]
    ELSE b

\* A variant that looks in both maps.
VaultLocEitherMap(sf, r) ==
    IF IsSome(SecretfileVar(sf, r.name))
    THEN SecretfileVar(sf, r.name)
    ELSE SecretfileFile(sf, r.name)

\* impl Backend for Client: var reads the varmap, file the filemap.
VaultLoc(sf, r) ==
    IF r.kind = "var" THEN SecretfileVar(sf, r.name) ELSE SecretfileFile(sf, r.name)

(***************************************************************************)
(* chained.rs: the loop of var and file.                                   *)
(***************************************************************************)
\* Variants of the loop's body with a slip in them: the loop left at the
\* first error, the first error kept instead of the last, and a success
\* that does not return.
ChainNextStopAtError(r, i, e) ==
    [done |-> TRUE, ret |-> r, idx |-> i, err |-> e]

ChainNextFirstError(r, i, e) ==
    IF r.ok
    THEN [done |-> TRUE, ret |-> Ok(r.value), idx |-> i, err |-> e]
    ELSE [done |-> FALSE, ret |-> r, idx |-> i + 1,
          err |-> IF IsSome(e) THEN e ELSE Some(r.err)]

ChainNextNoReturn(r, i, e) ==
    [done |-> FALSE, ret |-> r, idx |-> i + 1, err |-> IF r.ok THEN e ELSE Some(r.err)]

\* Lines 62-69: the first success is returned, an error is remembered and
\* the next backend tried.
ChainNext(r, i, e) ==
    IF r.ok
    THEN [done |-> TRUE, ret |-> Ok(r.value), idx |-> i, err |-> e]
    ELSE [done |-> FALSE, ret |-> r, idx |-> i + 1, err |-> Some(r.err)]

\* A variant that forgets the remembered error.
ChainEndNoBackend(e) == Err(NoBackend)

\* Line 71: Err(err.unwrap_or(Error::NoBackend)).
ChainEnd(e) == Err(IF IsSome(e) THEN Unwrap(e) ELSE NoBackend)

(***************************************************************************)
(* lib.rs: Client::var and Client::file wrap the chain's error with the    *)
(* name asked for.  A chain used directly, as chained.rs's tests do, returns  *)
(* its result as it is.                                                    *)
(***************************************************************************)
\* A variant that returns the chain's error as it is.
ClientResultBare(c, r, res) == res

ClientResult(c, r, res) ==
    IF c.facade /\ ~res.ok THEN Err(Credential(r.name, res.err)) ELSE res

(***************************************************************************)
(* Token acquisition: vault/kubernetes.rs and default_token.  `world` is   *)
(* what the machine holds when a client is built: whether the service      *)
(* account JWT can be read, how the login endpoint answers, whether there  *)
(* is a home directory and a ~/.vault-token, and the Secretfile of the     *)
(* current directory.  Each operator gives its result and the log of the   *)
(* sources it touched.                                                     *)
(***************************************************************************)
Worlds ==
    [jwt : BOOLEAN, auth : {"ok", "status", "malformed"}, home : BOOLEAN,
     tokenFile : BOOLEAN, cwd : {"missing", "present"}]

KUBERNETES_TOKEN_PATH == "/var/run/secrets/kubernetes.io/serviceaccount/token"

\* auth (kubernetes.rs, lines 45-91), from the response on.
Auth(addr, auth_path, world) ==
    LET url == <<addr, "v1/auth/", auth_path, "/login">>
    IN  CASE world.auth = "ok" -> Ok("token-from-kubernetes")
          [] world.auth = "malformed" -> Err(UrlErr(url, Other("error decoding response body")))
          [] world.auth = "status" ->
               Err(UrlErr(url, UnexpectedHttpStatus(403, Trim(<<"permission denied", "\n">>))))

\* vault_kubernetes_token: Ok(None) without a role, else the JWT is read and
\* exchanged; either failure is returned.
SomeToken(a) == IF a.ok THEN Ok(Some(a.value)) ELSE a

VaultKubernetesToken(e, addr, world) ==
    IF "VAULT_KUBERNETES_ROLE" \notin DOMAIN e
    THEN [res |-> Ok(None), log |-> <<>>]
    ELSE IF ~world.jwt
         THEN [res |-> Err(FileRead(KUBERNETES_TOKEN_PATH, Io(KUBERNETES_TOKEN_PATH))),
               log |-> <<"read jwt">>]
         ELSE [res |-> SomeToken(Auth(addr, "kubernetes", world)),
               log |-> <<"read jwt", "post login">>]

\* The else branch of default_token, lines 37-45: ~/.vault-token.
TokenFile(world) ==
    IF ~world.home
    THEN [res |-> Err(NoHomeDirectory), log |-> <<>>]
    ELSE IF ~world.tokenFile
         THEN [res |-> Err(Io("~/.vault-token")), log |-> <<"read token file">>]
         ELSE [res |-> Ok("token-from-file"), log |-> <<"read token file">>]

\* default_token, lines 32-46: k is what vault_kubernetes_token returned.
\* Its error is returned (the `?`), its token is taken, and only Ok(None)
\* leads to the token file.
AfterLog(log, f) == [res |-> f.res, log |-> log \o f.log]

\* A variant that goes on to the token file when the exchange failed.
TokenAfterKubernetesFallThrough(k, world) ==
    IF k.res.ok /\ IsSome(k.res.value)
    THEN [res |-> Ok(Unwrap(k.res.value)), log |-> k.log]
    ELSE AfterLog(k.log, TokenFile(world))

TokenAfterKubernetes(k, world) ==
    IF ~k.res.ok
    THEN k
    ELSE IF IsSome(k.res.value)
         THEN [res |-> Ok(Unwrap(k.res.value)), log |-> k.log]
         ELSE AfterLog(k.log, TokenFile(world))

\* A variant that returns the cause as it is.
WrapTokenErrorBare(t) == t

\* default_token, lines 48-49: every error is wrapped in MissingVaultToken.
WrapTokenError(t) ==
    [res |-> IF t.res.ok THEN t.res ELSE Err(MissingVaultToken(t.res.err)), log |-> t.log]

\* A variant that asks Kubernetes before it looks at VAULT_TOKEN.
DefaultTokenKubernetesFirst(e, addr, world) ==
    WrapTokenError(IF "VAULT_KUBERNETES_ROLE" \in DOMAIN e \/ "VAULT_TOKEN" \notin DOMAIN e
                   THEN TokenAfterKubernetes(VaultKubernetesToken(e, addr, world), world)
                   ELSE [res |-> Ok(e["VAULT_TOKEN"]), log |-> <<>>])

\* default_token: VAULT_TOKEN overrides everything, else the Kubernetes
\* exchange, else the token file.
DefaultToken(e, addr, world) ==
    WrapTokenError(IF "VAULT_TOKEN" \in DOMAIN e
                   THEN [res |-> Ok(e["VAULT_TOKEN"]), log |-> <<>>]
                   ELSE TokenAfterKubernetes(VaultKubernetesToken(e, addr, world), world))

\* default_addr and Client::is_enabled.
DefaultAddr(e) ==
    IF "VAULT_ADDR" \in DOMAIN e THEN Ok(e["VAULT_ADDR"]) ELSE Err(MissingVaultAddr)

IsEnabled(e) == DefaultAddr(e).ok

\* vault::Client::new: an empty cache around the address and the token.
VaultWithToken(addr, t) ==
    [res |-> IF t.res.ok THEN Ok(VaultNew(addr, t.res.value)) ELSE t.res, log |-> t.log]

\* vault::Client::default: the address is read and parsed, the token
\* acquired, and only then is the client made.
VaultDefault(e, world) ==
    IF "VAULT_ADDR" \notin DOMAIN e
    THEN [res |-> Err(MissingVaultAddr), log |-> <<>>]
    ELSE IF e["VAULT_ADDR"] = BadAddr
         THEN [res |-> Err(UnparseableUrl(e["VAULT_ADDR"])), log |-> <<>>]
         ELSE VaultWithToken(e["VAULT_ADDR"], DefaultToken(e, e["VAULT_ADDR"], world))

\* envvar::Client::default never fails.
EnvDefault == [kind |-> "env"]

\* chained::Client::add after the backends already there; the `?` of line 35
\* returns the Vault client's error.
AddVault(first, v) ==
    [res |-> IF v.res.ok THEN Ok(first \o <<v.res.value>>) ELSE v.res, log |-> v.log]

\* A variant that adds the env backend whatever allow_override says.
WithDefaultBackendsEnvAlways(e, allow_override, world) ==
    IF IsEnabled(e)
    THEN AddVault(<<EnvDefault>>, VaultDefault(e, world))
    ELSE [res |-> Ok(<<EnvDefault>>), log |-> <<>>]

\* A variant that makes do with the env backend when the Vault backend
\* cannot be built and overrides are allowed.
WithDefaultBackendsFallsBack(e, allow_override, world) ==
    IF IsEnabled(e) /\ (VaultDefault(e, world).res.ok \/ ~allow_override)
    THEN AddVault(IF allow_override THEN <<EnvDefault>> ELSE <<>>, VaultDefault(e, world))
    ELSE [res |-> Ok(<<EnvDefault>>), log |-> VaultDefault(e, world).log]

\* chained::Client::with_default_backends.
WithDefaultBackends(e, allow_override, world) ==
    IF IsEnabled(e)
    THEN AddVault(IF allow_override THEN <<EnvDefault>> ELSE <<>>, VaultDefault(e, world))
    ELSE [res |-> Ok(<<EnvDefault>>), log |-> <<>>]

\* A variant that prefers the file of the current directory.
SecretfileDefaultCwdFirst(built_in_opt, world) ==
    IF world.cwd = "present"
    THEN Ok(FooSecretfile)
    ELSE IF IsSome(built_in_opt)
         THEN Ok(Unwrap(built_in_opt))
         ELSE Err(FileRead("Secretfile", Io("Secretfile")))

\* Secretfile::default: the built-in Secretfile if one was set, else the
\* file `Secretfile` of the current directory.
SecretfileDefault(built_in_opt, world) ==
    IF IsSome(built_in_opt)
    THEN Ok(Unwrap(built_in_opt))
    ELSE IF world.cwd = "present"
         THEN Ok(FooSecretfile)
         ELSE Err(FileRead("Secretfile", Io("Secretfile")))

\* lib.rs, Options and Client::new: the Secretfile first, then the chain.
OptionsSpace ==
    [secretfile : {None, Some(FooSecretfile), Some(EmptySecretfile)}, allow_override : BOOLEAN]
OptionsDefault == [secretfile |-> None, allow_override |-> TRUE]

ClientWith(sf, ch) ==
    [res |-> IF ch.res.ok
             THEN Ok([facade |-> TRUE, secretfile |-> sf, backends |-> ch.res.value])
             ELSE ch.res,
     log |-> ch.log]

ClientWithSecretfile(sf, options, e, world) ==
    IF ~sf.ok
    THEN [res |-> sf, log |-> <<>>]
    ELSE ClientWith(sf.value, WithDefaultBackends(e, options.allow_override, world))

ClientNew(options, e, built_in_opt, world) ==
    ClientWithSecretfile(IF IsSome(options.secretfile)
                         THEN Ok(Unwrap(options.secretfile))
                         ELSE SecretfileDefault(built_in_opt, world),
                         options, e, world)

(***************************************************************************)
(* State.                                                                  *)
(***************************************************************************)
VARIABLES
    env,        \* the process environment: defined names -> values
    built_in,   \* BUILT_IN_SECRETFILE: Option<Secretfile>
    builtInLock, \* holder of BUILT_IN_SECRETFILE's mutex, 0 when free
    text,       \* the Secretfile text handed to Secretfile::from_str
    parsed,     \* Option<Result<Secretfile>>: what from_str returned
    client,     \* the client: Option<Client>; CLIENT's content in SpecGlobal
    lock,       \* holder of CLIENT's mutex, 0 when free
    gen,        \* generation of the secrets the remote store holds
    tokenLog,   \* sources touched by the last token acquisition
    lastNew,    \* Option: the options of the last construction and how it ended
    pc,         \* per task: idle, lock, init, loop, fetch, done
    req,        \* per task: the request being resolved
    idx,        \* per task: index of the backend the chain's loop is at
    err,        \* per task: the loop's `err: Option<Error>`
    invoked,    \* per task: the backends called for this request, with results
    chainRes,   \* per task: Option<Result> of the chained backend
    result      \* per task: Option<Result> handed to the caller

vars == <<env, built_in, builtInLock, text, parsed, client, lock, gen, tokenLog, lastNew,
          pc, req, idx, err, invoked, chainRes, result>>

\* The state of secretfile.rs beside BUILT_IN_SECRETFILE's content.
sfVars == <<builtInLock, text, parsed>>

procVars == <<pc, req, idx, err, invoked, chainRes, result>>

IdleProcs ==
    /\ pc = [p \in Procs |-> "idle"]
    /\ req = [p \in Procs |-> NoRequest]
    /\ idx = [p \in Procs |-> 0]
    /\ err = [p \in Procs |-> None]
    /\ invoked = [p \in Procs |-> <<>>]
    /\ chainRes = [p \in Procs |-> None]
    /\ result = [p \in Procs |-> None]

(***************************************************************************)
(* Steps of one resolution, shared by the specifications.                  *)
(***************************************************************************)
\* The loop of chained::Client::var/file is entered (line 60).
EnterLoop(p) ==
    /\ pc' = [pc EXCEPT ![p] = "loop"]
    /\ idx' = [idx EXCEPT ![p] = 1]
    /\ err' = [err EXCEPT ![p] = None]
    /\ invoked' = [invoked EXCEPT ![p] = <<>>]
    /\ chainRes' = [chainRes EXCEPT ![p] = None]
    /\ result' = [result EXCEPT ![p] = None]

\* The chain returns `res`; the facade, if any, wraps it.
Finish(p, res) ==
    /\ pc' = [pc EXCEPT ![p] = "done"]
    /\ chainRes' = [chainRes EXCEPT ![p] = Some(res)]
    /\ result' = [result EXCEPT ![p] = Some(ClientResult(Unwrap(client), req[p], res))]

\* Backend idx[p] answered r: lines 62-69.  The trace keeps the answer,
\* whether the backend sent a GET to give it, and the response to the GET.
Deliver(p, r, sent) ==
    LET n == ChainNext(r, idx[p], err[p])
    IN  /\ invoked' = [invoked EXCEPT ![p] =
                          Append(@, [backend |-> idx[p], res |-> r, get |-> IsSome(sent),
                                     resp |-> sent])]
        /\ idx' = [idx EXCEPT ![p] = n.idx]
        /\ err' = [err EXCEPT ![p] = n.err]
        /\ IF n.done
           THEN Finish(p, n.ret)
           ELSE /\ pc' = [pc EXCEPT ![p] = "loop"]
                /\ UNCHANGED <<chainRes, result>>

\* A variant that writes the backend back to the first place of the list.
SetBackendFirstSlot(i, b) ==
    client' = Some([Unwrap(client) EXCEPT !.backends[1] = b])

\* The backend at place i was called through `&mut`: its cache and the
\* counts are those of b now.
SetBackend(i, b) ==
    client' = Some([Unwrap(client) EXCEPT !.backends[i] = b])

\* One turn of the loop: the end of the list (line 71), or the call of
\* backend idx[p].  The Vault backend either answers at once or sends its
\* GET and waits for the response.
ChainStep(p) ==
    /\ pc[p] = "loop"
    /\ UNCHANGED <<env, built_in, sfVars, lock, gen, tokenLog, lastNew, req>>
    /\ LET c == Unwrap(client)
           i == idx[p]
           r == req[p]
       IN  IF i > Len(c.backends)
           THEN /\ Finish(p, ChainEnd(err[p]))
                /\ UNCHANGED <<client, idx, err, invoked>>
           ELSE LET b == c.backends[i]
                IN  CASE b.kind = "env" ->
                           /\ Deliver(p, IF r.kind = "var" THEN EnvVar(env, r.name)
                                                           ELSE EnvFile(r.name), None)
                           /\ UNCHANGED client
                      [] b.kind = "dummy" ->
                           /\ Deliver(p, IF r.kind = "var" THEN DummyVar(r.name)
                                                           ELSE DummyFile(r.name), None)
                           /\ UNCHANGED client
                      [] b.kind = "vault" ->
                           LET loc == VaultLoc(c.secretfile, r)
                           IN  IF GetLocNeedsFetch(b, loc)
                               THEN /\ SetBackend(i, CountGet(b, Unwrap(loc).path))
                                    /\ pc' = [pc EXCEPT ![p] = "fetch"]
                                    /\ UNCHANGED <<idx, err, invoked, chainRes, result>>
                               ELSE /\ Deliver(p, GetLocLookup(b, r.name, loc), None)
                                    /\ UNCHANGED client

\* The response to the GET arrives: get_secret ends, get_loc inserts the
\* secret and looks the key up, or returns get_secret's error.
FetchReturn(p) ==
    /\ pc[p] = "fetch"
    /\ UNCHANGED <<env, built_in, sfVars, lock, gen, tokenLog, lastNew, req>>
    /\ LET c == Unwrap(client)
           i == idx[p]
           b == c.backends[i]
           loc == VaultLoc(c.secretfile, req[p])
           path == Unwrap(loc).path
       IN  \E resp \in Responses(path, gen) :
              LET fetched == GetSecret(b.addr, path, resp)
                  b2 == AfterFetch(b, path, fetched)
              IN  /\ SetBackend(i, b2)
                  /\ Deliver(p, IF fetched.ok THEN GetLocLookup(b2, req[p].name, loc)
                                              ELSE fetched, Some(resp))

\* A variant whose guard is dropped after the body only: a call that leaves
\* by the `?` of the construction keeps the lock.
ReturnKeepsLockOnEarlyExit(p) ==
    /\ pc[p] = "done"
    /\ pc' = [pc EXCEPT ![p] = "idle"]
    /\ req' = [req EXCEPT ![p] = NoRequest]
    /\ idx' = [idx EXCEPT ![p] = 0]
    /\ err' = [err EXCEPT ![p] = None]
    /\ invoked' = [invoked EXCEPT ![p] = <<>>]
    /\ chainRes' = [chainRes EXCEPT ![p] = None]
    /\ result' = [result EXCEPT ![p] = None]
    /\ lock' = IF lock = p /\ IsSome(chainRes[p]) THEN 0 ELSE lock
    /\ UNCHANGED <<env, built_in, sfVars, client, gen, tokenLog, lastNew>>

\* The caller takes the result; with_client's guard is dropped when the
\* function returns.
Return(p) ==
    /\ pc[p] = "done"
    /\ pc' = [pc EXCEPT ![p] = "idle"]
    /\ req' = [req EXCEPT ![p] = NoRequest]
    /\ idx' = [idx EXCEPT ![p] = 0]
    /\ err' = [err EXCEPT ![p] = None]
    /\ invoked' = [invoked EXCEPT ![p] = <<>>]
    /\ chainRes' = [chainRes EXCEPT ![p] = None]
    /\ result' = [result EXCEPT ![p] = None]
    /\ lock' = IF lock = p THEN 0 ELSE lock
    /\ UNCHANGED <<env, built_in, sfVars, client, gen, tokenLog, lastNew>>

\* The remote store rotates its secrets.
Rotate ==
    /\ gen < MaxGen
    /\ gen' = gen + 1
    /\ UNCHANGED <<env, built_in, sfVars, client, lock, tokenLog, lastNew, procVars>>

\* env::set_var, as the crate's documentation and tests call it before they
\* ask for a credential.
SetVar(n, v) ==
    /\ env' = [m \in DOMAIN env \cup {n} |-> IF m = n THEN v ELSE env[m]]
    /\ env' # env
    /\ UNCHANGED <<built_in, sfVars, client, lock, gen, tokenLog, lastNew, procVars>>

(***************************************************************************)
(* A client owned by one caller.                                           *)
(***************************************************************************)
Owner == CHOOSE p \in Procs : \A q \in Procs : p <= q

\* Client::var(name) / Client::file(path) on the owned client, or var/file
\* of a chain used directly.
Call(p, r) ==
    /\ pc[p] = "idle"
    /\ IsSome(client)
    /\ req' = [req EXCEPT ![p] = r]
    /\ EnterLoop(p)
    /\ UNCHANGED <<env, built_in, sfVars, client, lock, gen, tokenLog, lastNew>>

\* Client::var(name) / Client::file(path) of lib.rs: file returns at once,
\* lines 131-136, for a path that is not Unicode; else the chain is called.
ClientCall(p, r) ==
    IF r.kind = "file" /\ ~IsSome(PathToStr(r.name))
    THEN /\ pc[p] = "idle"
         /\ IsSome(client)
         /\ req' = [req EXCEPT ![p] = r]
         /\ pc' = [pc EXCEPT ![p] = "done"]
         /\ result' = [result EXCEPT ![p] =
                          Some(Err(Credential(PathDisplay(r.name), NonUnicodePath(r.name))))]
         /\ UNCHANGED <<env, built_in, sfVars, client, lock, gen, tokenLog, lastNew,
                        idx, err, invoked, chainRes>>
    ELSE Call(p, r)

\* Client::new(options).
Constructed(options, n) ==
    /\ client' = IF n.res.ok THEN Some(n.res.value) ELSE None
    /\ lastNew' = Some([options |-> options,
                        res |-> IF n.res.ok THEN Ok("client") ELSE n.res])
    /\ tokenLog' = n.log

New(options, world) ==
    /\ ~IsSome(client)
    /\ Constructed(options, ClientNew(options, env, built_in, world))
    /\ UNCHANGED <<env, built_in, sfVars, lock, gen, procVars>>

Init ==
    /\ env \in EnvSpace(EnvNames)
    /\ built_in = None
    /\ builtInLock = 0
    /\ text = <<>>
    /\ parsed = None
    /\ client = None
    /\ lock = 0
    /\ gen = 0
    /\ tokenLog = <<>>
    /\ lastNew = None
    /\ IdleProcs

Next ==
    \/ \E o \in OptionsSpace, w \in Worlds : New(o, w)
    \/ \E r \in ClientRequests : ClientCall(Owner, r)
    \/ ChainStep(Owner)
    \/ FetchReturn(Owner)
    \/ Return(Owner)
    \/ Rotate
    \/ \E n \in EnvNames : \E v \in EnvValues(n) : SetVar(n, v)

Spec == Init /\ [][Next]_vars

(***************************************************************************)
(* A chain built as chained.rs's tests build it: Client::new() and add,    *)
(* with any list of env, dummy and Vault backends, used directly.          *)
(***************************************************************************)
TestBackends == {[kind |-> "env"], [kind |-> "dummy"], VaultNew(GoodAddr, "123")}

BackendLists == UNION {[1..n -> TestBackends] : n \in 0..MaxBackends}

InitChain ==
    /\ env \in EnvSpace({"FOO_USERNAME"})
    /\ built_in = None
    /\ builtInLock = 0
    /\ text = <<>>
    /\ parsed = None
    /\ \E bs \in BackendLists :
          client = Some([facade |-> FALSE, secretfile |-> FooSecretfile, backends |-> bs])
    /\ lock = 0
    /\ gen = 0
    /\ tokenLog = <<>>
    /\ lastNew = None
    /\ IdleProcs

NextChain ==
    \/ \E r \in Requests : Call(Owner, r)
    \/ ChainStep(Owner)
    \/ FetchReturn(Owner)
    \/ Return(Owner)

SpecChain == InitChain /\ [][NextChain]_vars

(***************************************************************************)
(* The process-wide client: lib.rs, CLIENT and with_client.                *)
(***************************************************************************)
\* credentials::var(name) / credentials::file(path): with_client is entered
\* and waits for the lock (line 172).
GlobalCall(p, r) ==
    /\ pc[p] = "idle"
    /\ pc' = [pc EXCEPT ![p] = "lock"]
    /\ req' = [req EXCEPT ![p] = r]
    /\ UNCHANGED <<env, built_in, sfVars, client, lock, gen, tokenLog, lastNew,
                   idx, err, invoked, chainRes, result>>

\* A variant whose lock is granted to whoever asks.
CanLockAlways(p) == TRUE

\* A variant whose lock guards the construction only.
CanLockOnceBuilt(p) == lock = 0 \/ IsSome(client)

\* CLIENT.lock().await completes.
CanLock(p) == lock = 0

Lock(p) ==
    /\ pc[p] = "lock"
    /\ CanLock(p)
    /\ lock' = p
    /\ pc' = [pc EXCEPT ![p] = "init"]
    /\ UNCHANGED <<env, built_in, sfVars, client, gen, tokenLog, lastNew,
                   req, idx, err, invoked, chainRes, result>>

\* Line 176: Client::default() returned n; its error leaves with_client by
\* the `?`, before the body is called.
InitNew(p, n) ==
    /\ Constructed(OptionsDefault, n)
    /\ IF n.res.ok
       THEN EnterLoop(p)
       ELSE /\ pc' = [pc EXCEPT ![p] = "done"]
            /\ result' = [result EXCEPT ![p] = Some(n.res)]
            /\ UNCHANGED <<idx, err, invoked, chainRes>>

\* A variant that keeps the error of a failed construction and returns it
\* to the later calls.
InitClientRemembersFailure(p) ==
    /\ pc[p] = "init"
    /\ UNCHANGED <<env, built_in, sfVars, lock, gen, req>>
    /\ IF IsSome(client)
       THEN /\ EnterLoop(p)
            /\ UNCHANGED <<client, tokenLog, lastNew>>
       ELSE IF IsSome(lastNew)
            THEN InitNew(p, [res |-> Unwrap(lastNew).res, log |-> tokenLog])
            ELSE \E world \in Worlds :
                    InitNew(p, ClientNew(OptionsDefault, env, built_in, world))

\* Lines 175-183: the client is built if there is none, and an error of
\* Client::default is returned as it is; then the body is called.
InitClient(p) ==
    /\ pc[p] = "init"
    /\ UNCHANGED <<env, built_in, sfVars, lock, gen, req>>
    /\ IF IsSome(client)
       THEN /\ EnterLoop(p)
            /\ UNCHANGED <<client, tokenLog, lastNew>>
       ELSE \E world \in Worlds :
               InitNew(p, ClientNew(OptionsDefault, env, built_in, world))

GlobalRequests ==
    {[kind |-> "var", name |-> "FOO_USERNAME"], [kind |-> "var", name |-> "FOO_PASSWORD"],
     [kind |-> "file", name |-> "key.pem"]}

InitGlobal == Init

NextGlobal ==
    \/ \E p \in Procs, r \in GlobalRequests : GlobalCall(p, r)
    \/ \E p \in Procs : Lock(p)
    \/ \E p \in Procs : InitClient(p)
    \/ \E p \in Procs : ChainStep(p)
    \/ \E p \in Procs : FetchReturn(p)
    \/ \E p \in Procs : Return(p)
    \/ \E n \in EnvNames : \E v \in EnvValues(n) : SetVar(n, v)

SpecGlobal == InitGlobal /\ [][NextGlobal]_vars

\* The scheduling of the calls.  CLIENT is a tokio::sync::Mutex, which hands
\* the lock to the waiting tasks in the order they asked: a task that waits
\* is not passed over forever (strong fairness of Lock).  A task that holds
\* the lock is polled until its future completes, and every GET it sent is
\* answered (weak fairness of the steps inside with_client).
FairGlobal ==
    \A p \in Procs :
       /\ SF_vars(Lock(p))
       /\ WF_vars(InitClient(p))
       /\ WF_vars(ChainStep(p))
       /\ WF_vars(FetchReturn(p))
       /\ WF_vars(Return(p))

SpecGlobalFair == SpecGlobal /\ FairGlobal

(***************************************************************************)
(* secretfile.rs: the built-in Secretfile, set and read by concurrent      *)
(* tasks under BUILT_IN_SECRETFILE's mutex.                                *)
(***************************************************************************)
\* A Secretfile to build into a binary, unlike the one of the current
\* directory.
BuiltInSecretfile ==
    [varmap |-> [n \in {"DUMMY"} |-> Path("dummy")], filemap |-> <<>>]

\* Secretfile::set_built_in(arg) and Secretfile::default().
SecretfileRequests ==
    [kind : {"set_built_in"}, name : {""},
     arg : {None, Some(EmptySecretfile), Some(BuiltInSecretfile)}]
       \cup {[kind |-> "default", name |-> "", arg |-> None]}

SecretfileCall(p, r) ==
    /\ pc[p] = "idle"
    /\ pc' = [pc EXCEPT ![p] = "sf_lock"]
    /\ req' = [req EXCEPT ![p] = r]
    /\ UNCHANGED <<env, built_in, sfVars, client, lock, gen, tokenLog, lastNew,
                   idx, err, invoked, chainRes, result>>

\* A variant whose mutex is granted to whoever asks.
CanLockBuiltInAlways(p) == TRUE

\* BUILT_IN_SECRETFILE.lock() returns.
CanLockBuiltIn(p) == builtInLock = 0

BuiltInLock(p) ==
    /\ pc[p] = "sf_lock"
    /\ CanLockBuiltIn(p)
    /\ builtInLock' = p
    /\ pc' = [pc EXCEPT ![p] = "sf_in"]
    /\ UNCHANGED <<env, built_in, text, parsed, client, lock, gen, tokenLog, lastNew,
                   req, idx, err, invoked, chainRes, result>>

\* set_built_in, line 197: *guard.borrow_mut() = secretfile.
SetBuiltIn(p) ==
    /\ pc[p] = "sf_in"
    /\ req[p].kind = "set_built_in"
    /\ built_in' = req[p].arg
    /\ pc' = [pc EXCEPT ![p] = "sf_out"]
    /\ result' = [result EXCEPT ![p] = Some(Ok("unit"))]
    /\ UNCHANGED <<env, sfVars, client, lock, gen, tokenLog, lastNew,
                   req, idx, err, invoked, chainRes>>

\* default, lines 207-217: the built-in Secretfile is copied out, or the
\* file of the current directory read, all under the guard.
SecretfileDefaultRead(p) ==
    /\ pc[p] = "sf_in"
    /\ req[p].kind = "default"
    /\ \E world \in Worlds :
          result' = [result EXCEPT ![p] = Some(SecretfileDefault(built_in, world))]
    /\ pc' = [pc EXCEPT ![p] = "sf_out"]
    /\ UNCHANGED <<env, built_in, sfVars, client, lock, gen, tokenLog, lastNew,
                   req, idx, err, invoked, chainRes>>

\* The function returns and its guard is dropped.
SecretfileReturn(p) ==
    /\ pc[p] = "sf_out"
    /\ pc' = [pc EXCEPT ![p] = "idle"]
    /\ req' = [req EXCEPT ![p] = NoRequest]
    /\ result' = [result EXCEPT ![p] = None]
    /\ builtInLock' = IF builtInLock = p THEN 0 ELSE builtInLock
    /\ UNCHANGED <<env, built_in, text, parsed, client, lock, gen, tokenLog, lastNew,
                   idx, err, invoked, chainRes>>

InitBuiltIn == Init

NextBuiltIn ==
    \/ \E p \in Procs, r \in SecretfileRequests : SecretfileCall(p, r)
    \/ \E p \in Procs : BuiltInLock(p)
    \/ \E p \in Procs : SetBuiltIn(p)
    \/ \E p \in Procs : SecretfileDefaultRead(p)
    \/ \E p \in Procs : SecretfileReturn(p)

SpecBuiltIn == InitBuiltIn /\ [][NextBuiltIn]_vars

(***************************************************************************)
(* The process-wide client and the built-in Secretfile together: the       *)
(* program calls Secretfile::set_built_in while tasks use                  *)
(* credentials::var / credentials::file.                                   *)
(***************************************************************************)
\* A variant in which the client shares the built-in Secretfile instead of
\* owning the one Secretfile::default returned to Client::new.
SetBuiltInReachesClient(arg) ==
    /\ builtInLock = 0
    /\ built_in' = arg
    /\ built_in' # built_in
    /\ client' = IF IsSome(client) /\ IsSome(arg)
                 THEN Some([Unwrap(client) EXCEPT !.secretfile = Unwrap(arg)])
                 ELSE client
    /\ UNCHANGED <<env, sfVars, lock, gen, tokenLog, lastNew, procVars>>

\* Secretfile::set_built_in(arg), lines 193-198, from its lock to the drop
\* of its guard: the override is assigned and nothing else.
SetBuiltInWhole(arg) ==
    /\ builtInLock = 0
    /\ built_in' = arg
    /\ built_in' # built_in
    /\ UNCHANGED <<env, sfVars, client, lock, gen, tokenLog, lastNew, procVars>>

BuiltInArgs == {None, Some(EmptySecretfile), Some(BuiltInSecretfile)}

NextGlobalBuiltIn ==
    \/ NextGlobal
    \/ \E arg \in BuiltInArgs : SetBuiltInWhole(arg)

SpecGlobalBuiltIn == InitGlobal /\ [][NextGlobalBuiltIn]_vars

(***************************************************************************)
(* secretfile.rs: parsing.  A text is the sequence of its lines, a line,   *)
(* a name, a path or a key the sequence of its characters, and the         *)
(* environment maps names to values, both sequences of characters.         *)
(***************************************************************************)
Letters ==
    {"a", "b", "c", "d", "e", "f", "g", "h", "i", "j", "k", "l", "m", "n", "o", "p", "q", "r", "s", "t", "u", "v", "w", "x", "y", "z",
     "A", "B", "C", "D", "E", "F", "G", "H", "I", "J", "K", "L", "M", "N", "O", "P", "Q", "R", "S", "T", "U", "V", "W", "X", "Y", "Z"}
Digits == {"0", "1", "2", "3", "4", "5", "6", "7", "8", "9"}

\* The classes of the two regular expressions: [a-zA-Z_], [a-zA-Z0-9_], \s.
IsNameStart(c) == c \in Letters \cup {"_"}
IsNameChar(c) == c \in Letters \cup Digits \cup {"_"}
IsSpace(c) == c \in {" ", "\t"}

\* The length of the longest run of name characters, of whitespace and of
\* non-whitespace that starts at position i of s.
RECURSIVE NameCharsFrom(_, _)
NameCharsFrom(s, i) ==
    IF i <= Len(s) /\ IsNameChar(s[i]) THEN 1 + NameCharsFrom(s, i + 1) ELSE 0

\* [a-zA-Z_][a-zA-Z0-9_]* at position i: its length, 0 for no match.
NameRun(s, i) == IF i <= Len(s) /\ IsNameStart(s[i]) THEN NameCharsFrom(s, i) ELSE 0

RECURSIVE SpaceRun(_, _)
SpaceRun(s, i) == IF i <= Len(s) /\ IsSpace(s[i]) THEN 1 + SpaceRun(s, i + 1) ELSE 0

RECURSIVE NonSpaceRun(_, _)
NonSpaceRun(s, i) == IF i <= Len(s) /\ ~IsSpace(s[i]) THEN 1 + NonSpaceRun(s, i + 1) ELSE 0

\* \{name\} after the `$` at position i: the length of the name, 0 for no
\* match.
BracedRun(s, i) ==
    IF /\ i + 1 <= Len(s)
       /\ s[i + 1] = "{"
       /\ NameRun(s, i + 2) > 0
       /\ i + 2 + NameRun(s, i + 2) <= Len(s)
       /\ s[i + 2 + NameRun(s, i + 2)] = "}"
    THEN NameRun(s, i + 2)
    ELSE 0

\* interpolate_env: replace_all goes through the text from the left; each
\* `$name` or `${name}` is replaced by the variable's value, or by nothing
\* with the error remembered, the last one winning; at the end the error,
\* if any, is returned instead of the text.
RECURSIVE Interpolate(_, _, _, _, _)
\* A variant that puts nothing for an undefined variable and goes on without
\* remembering an error.
ReplaceForgetsError(s, next, e, out, er, name) ==
    IF name \in DOMAIN e
    THEN Interpolate(s, next, e, out \o e[name], er)
    ELSE Interpolate(s, next, e, out, er)

Replace(s, next, e, out, er, name) ==
    IF name \in DOMAIN e
    THEN Interpolate(s, next, e, out \o e[name], er)
    ELSE Interpolate(s, next, e, out, Some(UndefinedEnvironmentVariable(name)))

Interpolate(s, i, e, out, er) ==
    IF i > Len(s)
    THEN IF IsSome(er) THEN Err(Unwrap(er)) ELSE Ok(out)
    ELSE IF s[i] = "$" /\ NameRun(s, i + 1) > 0
         THEN Replace(s, i + 1 + NameRun(s, i + 1), e, out, er,
                      SubSeq(s, i + 1, i + NameRun(s, i + 1)))
         ELSE IF s[i] = "$" /\ BracedRun(s, i) > 0
              THEN Replace(s, i + 3 + BracedRun(s, i), e, out, er,
                           SubSeq(s, i + 2, i + 1 + BracedRun(s, i)))
              ELSE Interpolate(s, i + 1, e, Append(out, s[i]), er)

InterpolateEnv(s, e) == Interpolate(s, 1, e, <<>>, None)

\* The line expression's first alternative: \s*(?:\#.*)?
MatchesBlank(line) ==
    \/ SpaceRun(line, 1) = Len(line)
    \/ line[SpaceRun(line, 1) + 1] = "#"

\* The end of the left-hand side, NAME or >file, 0 if the line starts with
\* neither.
LhsEnd(line) ==
    IF Len(line) > 0 /\ line[1] = ">"
    THEN IF NonSpaceRun(line, 2) > 0 THEN 1 + NonSpaceRun(line, 2) ELSE 0
    ELSE NameRun(line, 1)

\* Where the word after the left-hand side and its whitespace starts.
WordStart(line) == LhsEnd(line) + SpaceRun(line, LhsEnd(line) + 1) + 1

\* The second alternative: a left-hand side, whitespace, one word, and
\* nothing but whitespace to the end of the line.
MatchesEntry(line) ==
    /\ LhsEnd(line) > 0
    /\ SpaceRun(line, LhsEnd(line) + 1) > 0
    /\ NonSpaceRun(line, WordStart(line)) > 0
    /\ WordStart(line) + NonSpaceRun(line, WordStart(line))
          + SpaceRun(line, WordStart(line) + NonSpaceRun(line, WordStart(line))) - 1 = Len(line)

\* (?P<path>\S+?)(?::(?P<key>\S+))? on the word w: the path is the shortest
\* prefix, of n characters or more, that a colon and a key of one character
\* or more follow; 0 if the word has no such colon.
RECURSIVE PathEnd(_, _)
PathEnd(w, n) ==
    IF n + 2 > Len(w) THEN 0 ELSE IF w[n + 1] = ":" THEN n ELSE PathEnd(w, n + 1)

\* A variant whose file group starts at the `>`.
EntryCapturesKeepsMark(line, w, c) ==
    [matched |-> TRUE,
     var |-> IF line[1] = ">" THEN None ELSE Some(SubSeq(line, 1, LhsEnd(line))),
     file |-> IF line[1] = ">" THEN Some(SubSeq(line, 1, LhsEnd(line))) ELSE None,
     path |-> Some(IF c = 0 THEN w ELSE SubSeq(w, 1, c)),
     key |-> IF c = 0 THEN None ELSE Some(SubSeq(w, c + 2, Len(w)))]

EntryCaptures(line, w, c) ==
    [matched |-> TRUE,
     var |-> IF line[1] = ">" THEN None ELSE Some(SubSeq(line, 1, LhsEnd(line))),
     file |-> IF line[1] = ">" THEN Some(SubSeq(line, 2, LhsEnd(line))) ELSE None,
     path |-> Some(IF c = 0 THEN w ELSE SubSeq(w, 1, c)),
     key |-> IF c = 0 THEN None ELSE Some(SubSeq(w, c + 2, Len(w)))]

WordCaptures(line, w) == EntryCaptures(line, w, PathEnd(w, 1))

\* RE.captures(&line): the groups of the match, if the line matches.
Captures(line) ==
    IF MatchesBlank(line)
    THEN [matched |-> TRUE, var |-> None, file |-> None, path |-> None, key |-> None]
    ELSE IF MatchesEntry(line)
         THEN WordCaptures(line, SubSeq(line, WordStart(line),
                                        WordStart(line) + NonSpaceRun(line, WordStart(line)) - 1))
         ELSE [matched |-> FALSE, var |-> None, file |-> None, path |-> None, key |-> None]

\* A variant of from_caps that interpolates the key as well.
LocationOfInterpolatedKey(path, key, e) ==
    IF ~path.ok
    THEN path
    ELSE IF IsSome(key)
         THEN IF InterpolateEnv(Unwrap(key), e).ok
              THEN Ok(PathWithKey(path.value, InterpolateEnv(Unwrap(key), e).value))
              ELSE InterpolateEnv(Unwrap(key), e)
         ELSE Ok(Path(path.value))

\* Location::from_caps, lines 91-96, `path` being what interpolate_env made
\* of the path: its error is returned, the key is taken as it is.
LocationOf(path, key, e) ==
    IF ~path.ok
    THEN path
    ELSE IF IsSome(key) THEN Ok(PathWithKey(path.value, Unwrap(key))) ELSE Ok(Path(path.value))

\* Location::from_caps.
FromCaps(caps, e) ==
    IF IsSome(caps.path)
    THEN LocationOf(InterpolateEnv(Unwrap(caps.path), e), caps.key, e)
    ELSE Err(ParseErr(<<>>))

\* A variant that keeps the value a key already has.
MapInsertKeepsFirst(m, k, v) ==
    [x \in DOMAIN m \cup {k} |-> IF x \in DOMAIN m THEN m[x] ELSE v]

\* BTreeMap::insert.
MapInsert(m, k, v) == [x \in DOMAIN m \cup {k} |-> IF x = k THEN v ELSE m[x]]

\* read_internal, lines 147-151: the file name is interpolated and the
\* location filed under it.
InsertFile(sf, file, location) ==
    IF file.ok THEN Ok([sf EXCEPT !.filemap = MapInsert(@, file.value, location)]) ELSE file

\* read_internal, lines 145-155: the location first, then the entry.
InsertEntry(sf, caps, location, e) ==
    IF ~location.ok
    THEN location
    ELSE IF IsSome(caps.file)
         THEN InsertFile(sf, InterpolateEnv(Unwrap(caps.file), e), location.value)
         ELSE IF IsSome(caps.var)
              THEN Ok([sf EXCEPT !.varmap = MapInsert(@, Unwrap(caps.var), location.value)])
              ELSE Ok(sf)

\* A variant that passes over a line the expression does not match.
ReadCapsSkipsUnmatched(sf, line, caps, e) ==
    IF caps.matched /\ IsSome(caps.path)
    THEN InsertEntry(sf, caps, FromCaps(caps, e), e)
    ELSE Ok(sf)

\* read_internal, lines 144-164: one line.
ReadCaps(sf, line, caps, e) ==
    IF caps.matched /\ IsSome(caps.path)
    THEN InsertEntry(sf, caps, FromCaps(caps, e), e)
    ELSE IF caps.matched THEN Ok(sf) ELSE Err(ParseErr(line))

\* read_internal: the loop over the lines, left at the first error.
RECURSIVE ReadLines(_, _, _, _)
ReadNext(lines, i, r, e) == IF r.ok THEN ReadLines(lines, i + 1, r.value, e) ELSE r

ReadLines(lines, i, sf, e) ==
    IF i > Len(lines)
    THEN Ok(sf)
    ELSE ReadNext(lines, i, ReadCaps(sf, lines[i], Captures(lines[i]), e), e)

ReadInternal(lines, e) == ReadLines(lines, 1, EmptySecretfile, e)

\* Secretfile::read wraps the error; from_str reads the string.
WrapSecretfileError(r) == IF r.ok THEN r ELSE Err(SecretfileErr(r.err))

FromStr(lines, e) == WrapSecretfileError(ReadInternal(lines, e))

(***************************************************************************)
(* Writing a Secretfile back as text.  The crate has no such operation;    *)
(* the lines are those of the grammar, `NAME path[:key]` and               *)
(* `>file_path path[:key]`, one per entry.                                 *)
(***************************************************************************)
SerializeEntry(kind, name, location) ==
    (IF kind = "file" THEN <<">">> ELSE <<>>) \o name \o <<" ">> \o location.path
       \o (IF location.tag = "PathWithKey" THEN <<":">> \o location.key ELSE <<>>)

SerializedLines(sf) ==
    {SerializeEntry("var", n, sf.varmap[n]) : n \in DOMAIN sf.varmap}
       \cup {SerializeEntry("file", n, sf.filemap[n]) : n \in DOMAIN sf.filemap}

\* The lines in some order.
RECURSIVE SeqOf(_)
SeqOfFrom(S, x) == <<x>> \o SeqOf(S \ {x})

SeqOf(S) == IF S = {} THEN <<>> ELSE SeqOfFrom(S, CHOOSE x \in S : TRUE)

Serialize(sf) == SeqOf(SerializedLines(sf))

\* The text of a parsed Secretfile, parsed again.
RoundTrip(sf, e) == FromStr(Serialize(sf), e)

(***************************************************************************)
(* The texts from_str is given.  An entry line is written from its parts:  *)
(* the left-hand side with the whitespace after it, the path, the key if   *)
(* any and the whitespace at the end; names and paths are sequences of     *)
(* segments, a segment being literal text, $NAME or ${NAME}.               *)
(***************************************************************************)
Lit(t) == [t |-> "lit", s |-> t]
Plain(n) == [t |-> "plain", s |-> n]
Braced(n) == [t |-> "braced", s |-> n]

\* The names of the variables the texts refer to.
NameX == <<"X">>
NameY == <<"Y">>

LhsParts ==
    {[kind |-> "var", segs |-> <<Lit(<<"F", "O", "O", "_", "U", "S", "E", "R", "N", "A", "M", "E">>)>>, sep |-> <<" ">>],
     [kind |-> "var", segs |-> <<Lit(<<"B", "_", "1">>)>>, sep |-> <<" ", "\t">>],
     [kind |-> "file", segs |-> <<Plain(NameX), Lit(<<"/", "k", "e", "y", ".", "p", "e", "m">>)>>, sep |-> <<" ">>],
     [kind |-> "file", segs |-> <<Plain(NameY), Plain(NameX)>>, sep |-> <<" ", " ">>]}

PathParts ==
    {<<Lit(<<"s", "e", "c", "r", "e", "t", "/">>), Plain(NameX)>>,
     <<Braced(NameX), Lit(<<"_", "u", "s", "e", "r", "n", "a", "m", "e">>)>>,
     <<Lit(<<"s", "e", "c", "r", "e", "t", "/", "s", "s", "l">>)>>}

KeyParts ==
    {[key |-> None, trail |-> <<" ">>],
     [key |-> Some(<<"u", "s", "e", "r", "n", "a", "m", "e">>), trail |-> <<>>],
     [key |-> Some(<<"$", "X", ":", "j">>), trail |-> <<>>]}

Entries == [lhs : LhsParts, path : PathParts, key : KeyParts]

\* A segment as it is written.
RenderSeg(g) ==
    CASE g.t = "lit" -> g.s
      [] g.t = "plain" -> <<"$">> \o g.s
      [] g.t = "braced" -> <<"$", "{">> \o g.s \o <<"}">>

RECURSIVE RenderSegs(_)
RenderSegs(segs) ==
    IF segs = <<>> THEN <<>> ELSE RenderSeg(Head(segs)) \o RenderSegs(Tail(segs))

\* The line of an entry.
Render(a) ==
    (IF a.lhs.kind = "file" THEN <<">">> ELSE <<>>) \o RenderSegs(a.lhs.segs) \o a.lhs.sep
       \o RenderSegs(a.path)
       \o (IF IsSome(a.key.key) THEN <<":">> \o Unwrap(a.key.key) ELSE <<>>)
       \o a.key.trail

\* Lines that are no entries: an empty line, a comment, a name without a
\* path, and an entry after whitespace.
BlankLines == {<<>>, <<" ", " ", "#", " ", "c">>}
BadLines == {<<"F", "O", "O", "_", "U", "S", "E", "R", "N", "A", "M", "E">>, <<" ", "B", "_", "1", " ", "p">>}

Lines == {Render(a) : a \in Entries} \cup BlankLines \cup BadLines

Texts == UNION {[1..n -> Lines] : n \in 0..MaxLines}

\* The environment of a parse: no variable is defined, X is a:b, or X is bar
\* and Y is b.
ParseEnvs ==
    {<<>>,
     [n \in {NameX} |-> <<"a", ":", "b">>],
     [n \in {NameX, NameY} |-> IF n = NameX THEN <<"b", "a", "r">> ELSE <<"b">>]}

\* Secretfile::from_str(text).
FromStrCall ==
    /\ parsed = None
    /\ parsed' = Some(FromStr(text, env))
    /\ UNCHANGED <<env, built_in, builtInLock, text, client, lock, gen, tokenLog, lastNew,
                   procVars>>

InitParse ==
    /\ env \in ParseEnvs
    /\ text \in Texts
    /\ parsed = None
    /\ built_in = None
    /\ builtInLock = 0
    /\ client = None
    /\ lock = 0
    /\ gen = 0
    /\ tokenLog = <<>>
    /\ lastNew = None
    /\ IdleProcs

NextParse == FromStrCall

SpecParse == InitParse /\ [][NextParse]_vars

(***************************************************************************)
(* Properties of the chained backend (SpecChain).                          *)
(***************************************************************************)
Backends == IF IsSome(client) THEN Unwrap(client).backends ELSE <<>>

Failed(p, k) == ~invoked[p][k].res.ok

\* C1: the chained var/file calls the backends in list order, each at most
\* once; a success is returned at once, with the value of the first backend
\* that succeeded and nothing called after it; and no failure, of whatever
\* kind, ends the loop before the next backend was tried: an error is
\* returned only after every backend of the list was called and failed.
C1_FirstSuccessInOrder ==
    \A p \in Procs :
       /\ \A k \in 1..Len(invoked[p]) : invoked[p][k].backend = k
       /\ Len(invoked[p]) <= Len(Backends)
       /\ \A k \in 1..(Len(invoked[p]) - 1) : Failed(p, k)
       /\ pc[p] \in {"loop", "fetch"} =>
             /\ idx[p] = Len(invoked[p]) + 1
             /\ \A k \in 1..Len(invoked[p]) : Failed(p, k)
       /\ pc[p] = "done" =>
             LET res == Unwrap(chainRes[p])
                 n == Len(invoked[p])
             IN  IF res.ok
                 THEN /\ n >= 1
                      /\ invoked[p][n].res = Ok(res.value)
                 ELSE /\ n = Len(Backends)
                      /\ \A k \in 1..n : Failed(p, k)

\* A Vault backend without a Secretfile entry for the name failed first, and
\* the dummy backend after it was still called and gave the value.
C1_Witness ==
    /\ pc[Owner] = "done"
    /\ req[Owner] = [kind |-> "var", name |-> "DUMMY"]
    /\ Len(invoked[Owner]) = 2
    /\ invoked[Owner][1].res = Err(MissingEntry("DUMMY"))
    /\ Backends[1].kind = "vault"
    /\ chainRes[Owner] = Some(Ok(Str("dummy")))

\* C2: when every backend of a non-empty chain fails, the chain fails with
\* the error of the last backend of the list; in the chain [env, dummy] an
\* undefined variable fails with the dummy backend's error.
C2_LastError ==
    \A p \in Procs :
       (pc[p] = "done" /\ ~Unwrap(chainRes[p]).ok /\ Len(Backends) >= 1) =>
          /\ Len(invoked[p]) = Len(Backends)
          /\ Unwrap(chainRes[p]) = invoked[p][Len(Backends)].res
          /\ (Len(Backends) = 2 /\ Backends[1].kind = "env" /\ Backends[2].kind = "dummy"
              /\ req[p].kind = "var") =>
                Unwrap(chainRes[p]) = Err(Other("Credential not supported"))

\* [env, dummy] and a name neither knows: the env backend's error is not the
\* one returned.
C2_Witness ==
    /\ pc[Owner] = "done"
    /\ Len(Backends) = 2
    /\ Backends[1].kind = "env"
    /\ Backends[2].kind = "dummy"
    /\ req[Owner] = [kind |-> "var", name |-> "NOSUCHVAR"]
    /\ invoked[Owner][1].res = Err(UndefinedEnvironmentVariable("NOSUCHVAR"))
    /\ chainRes[Owner] = Some(Err(Other("Credential not supported")))

\* C9: the chain fails with NoBackend exactly when its list is empty; with a
\* non-empty list a failure is the error of one of the backends called.
C9_NoBackendIffEmpty ==
    \A p \in Procs :
       pc[p] = "done" =>
          LET res == Unwrap(chainRes[p])
          IN  /\ (~res.ok /\ res.err = NoBackend) <=> (Len(Backends) = 0)
              /\ (~res.ok /\ Len(Backends) > 0) =>
                    \E k \in 1..Len(invoked[p]) : invoked[p][k].res = res

\* The empty chain was asked and no backend was called.
C9_Witness ==
    /\ pc[Owner] = "done"
    /\ Len(Backends) = 0
    /\ invoked[Owner] = <<>>
    /\ chainRes[Owner] = Some(Err(NoBackend))

(***************************************************************************)
(* Properties of the Vault backend's cache (Spec).                         *)
(***************************************************************************)
VaultIdx == {i \in 1..Len(Backends) : Backends[i].kind = "vault"}

\* The location the Vault backend finds for task p's request.
ReqLoc(p) == VaultLoc(Unwrap(client).secretfile, req[p])

Fetching(p, i, path) ==
    pc[p] = "fetch" /\ idx[p] = i /\ Unwrap(ReqLoc(p)).path = path

\* C3 as stated: at most one GET per store path and Vault backend instance.
C3_AtMostOneGet ==
    \A i \in VaultIdx : \A path \in DOMAIN Backends[i].gets :
       Backends[i].gets[path] <= 1

\* C3, amended: for a store path at most one GET of a Vault backend instance
\* brings a secret back, the path is cached exactly when one did, and no GET
\* is on its way for a path that is cached: a GET is repeated only after the
\* earlier ones for the path failed.
C3_AtMostOneFetchSucceeds ==
    \A i \in VaultIdx :
       LET b == Backends[i]
       IN  /\ \A path \in DOMAIN b.oks : b.oks[path] <= 1 /\ b.oks[path] <= Count(b.gets, path)
           /\ DOMAIN b.secrets = {path \in DOMAIN b.oks : b.oks[path] = 1}
           /\ \A p \in Procs : \A path \in DOMAIN b.secrets : ~Fetching(p, i, path)

\* A first GET for secret/foo failed, a second one succeeded.
C3_Witness ==
    \E i \in VaultIdx :
       /\ Count(Backends[i].gets, "secret/foo") = 2
       /\ Count(Backends[i].oks, "secret/foo") = 1
       /\ "secret/foo" \in DOMAIN Backends[i].secrets

\* The answer get_loc gives from the cached secret of `path`.
FromCache(b, loc) ==
    LET m == b.secrets[loc.path].data.map
    IN  IF loc.key \in DOMAIN m THEN Ok(m[loc.key]) ELSE Err(MissingKeyInSecret(loc.path, loc.key))

Moved(p) == <<pc[p], idx[p], invoked[p]>>' # <<pc[p], idx[p], invoked[p]>>

\* C4: once store path p is cached, a request on the same backend instance
\* for PathWithKey(p, k), any k, is answered from the cached secret in one
\* step that sends no GET and leaves the backend as it is.
C4_CachedAnsweredWithoutGet ==
    [][\A p \in Procs : \A i \in VaultIdx :
          (/\ pc[p] = "loop"
           /\ idx[p] = i
           /\ IsSome(ReqLoc(p))
           /\ Unwrap(ReqLoc(p)).tag = "PathWithKey"
           /\ Unwrap(ReqLoc(p)).path \in DOMAIN Backends[i].secrets
           /\ Moved(p)) =>
             /\ pc'[p] # "fetch"
             /\ client' = client
             /\ invoked'[p] = Append(invoked[p],
                                     [backend |-> i,
                                      res |-> FromCache(Backends[i], Unwrap(ReqLoc(p))),
                                      get |-> FALSE, resp |-> None])]_vars

\* The password of secret/foo was answered without a GET, by a backend that
\* has sent one GET for secret/foo in all.
C4_Witness ==
    /\ pc[Owner] = "done"
    /\ req[Owner] = [kind |-> "var", name |-> "FOO_PASSWORD"]
    /\ Unwrap(result[Owner]).ok
    /\ LET last == invoked[Owner][Len(invoked[Owner])]
       IN  /\ ~last.get
           /\ Backends[last.backend].kind = "vault"
           /\ Backends[last.backend].gets = [q \in {"secret/foo"} |-> 1]

\* C6: a cached secret is never removed nor replaced, so every value a Vault
\* backend instance returns for a key of p is the value of that key in the
\* one response cached for p, also after the remote secret has changed.
C6_CacheEntryIsKept ==
    [][/\ \A i \in VaultIdx : \A path \in DOMAIN Backends[i].secrets :
             /\ IsSome(client')
             /\ path \in DOMAIN Unwrap(client').backends[i].secrets
             /\ Unwrap(client').backends[i].secrets[path] = Backends[i].secrets[path]
       /\ \A p \in Procs : \A k \in 1..Len(invoked'[p]) :
             LET e == invoked'[p][k]
                 b == Unwrap(client').backends[e.backend]
                 loc == Unwrap(VaultLoc(Unwrap(client').secretfile, req'[p]))
             IN  (b.kind = "vault" /\ e.res.ok) =>
                    /\ loc.path \in DOMAIN b.secrets
                    /\ e.res = FromCache(b, loc)]_vars

\* The remote secret was rotated after it was cached, and the username
\* returned without a GET is the cached one, not the server's.
C6_Witness ==
    /\ pc[Owner] = "done"
    /\ req[Owner] = [kind |-> "var", name |-> "FOO_USERNAME"]
    /\ gen = 1
    /\ result[Owner] = Some(Ok(StrGen("username", 0)))
    /\ ~invoked[Owner][Len(invoked[Owner])].get
    /\ \E i \in VaultIdx : Backends[i].secrets["secret/foo"].data.map # ServerSecret("secret/foo", gen).data.map

(***************************************************************************)
(* Properties of construction (Spec).                                      *)
(***************************************************************************)
Kinds(c) == [i \in 1..Len(c.backends) |-> c.backends[i].kind]

Built == ~IsSome(client) /\ IsSome(client')

\* C7: the default chain is [env, vault] when VAULT_ADDR is set and
\* allow_override is true, [vault] when it is set and allow_override is
\* false, and [env] when it is not set, whatever allow_override is.
C7_DefaultChain ==
    [][Built =>
          Kinds(Unwrap(client')) =
             IF "VAULT_ADDR" \in DOMAIN env
             THEN IF Unwrap(lastNew').options.allow_override
                  THEN <<"env", "vault">>
                  ELSE <<"vault">>
             ELSE <<"env">>]_vars

\* A chain of the Vault backend alone, built with allow_override false.
C7_Witness ==
    /\ IsSome(client)
    /\ Kinds(Unwrap(client)) = <<"vault">>
    /\ ~Unwrap(lastNew).options.allow_override

\* C8: an env backend is the first of its chain, and when the variable asked
\* for is defined, var returns its value in the step that calls the env
\* backend: the Vault backend is not called, no GET is sent and no backend
\* changes, whatever the Secretfile holds.
C8_EnvOverrides ==
    [][/\ \A i \in 1..Len(Backends) : Backends[i].kind = "env" => i = 1
       /\ \A p \in Procs :
             (/\ pc[p] = "loop"
              /\ idx[p] = 1
              /\ Backends[1].kind = "env"
              /\ req[p].kind = "var"
              /\ req[p].name \in DOMAIN env
              /\ Moved(p)) =>
                /\ pc'[p] = "done"
                /\ result'[p] = Some(Ok(Str(env[req[p].name])))
                /\ invoked'[p] = <<[backend |-> 1, res |-> Ok(Str(env[req[p].name])),
                                    get |-> FALSE, resp |-> None]>>
                /\ client' = client]_vars

\* FOO_USERNAME came from the environment, in a chain with a Vault backend
\* that has sent nothing, under a Secretfile with no entry for it.
C8_Witness ==
    /\ pc[Owner] = "done"
    /\ req[Owner] = [kind |-> "var", name |-> "FOO_USERNAME"]
    /\ Kinds(Unwrap(client)) = <<"env", "vault">>
    /\ Unwrap(client).secretfile = EmptySecretfile
    /\ result[Owner] = Some(Ok(Str("user")))
    /\ Backends[2].gets = <<>>
    /\ Backends[2].secrets = <<>>

\* The token of the chain's Vault backend.
TokenOf(c) == (CHOOSE b \in {c.backends[i] : i \in 1..Len(c.backends)} : b.kind = "vault").token

HasVault(c) == \E i \in 1..Len(c.backends) : c.backends[i].kind = "vault"

\* C10: the token is fixed when the Vault backend is built, by the first
\* source that applies: VAULT_TOKEN, and then nothing else is touched, even
\* with a role configured; else the Kubernetes exchange when a role is
\* configured; else the token file.  It does not change afterwards and no
\* source is touched again.
C10_TokenOrder ==
    [][/\ (Built /\ HasVault(Unwrap(client'))) =>
             LET t == TokenOf(Unwrap(client'))
             IN  IF "VAULT_TOKEN" \in DOMAIN env
                 THEN t = env["VAULT_TOKEN"] /\ tokenLog' = <<>>
                 ELSE IF "VAULT_KUBERNETES_ROLE" \in DOMAIN env
                      THEN t = "token-from-kubernetes" /\ tokenLog' = <<"read jwt", "post login">>
                      ELSE t = "token-from-file" /\ tokenLog' = <<"read token file">>
       /\ IsSome(client) =>
             /\ IsSome(client')
             /\ tokenLog' = tokenLog
             /\ HasVault(Unwrap(client)) =>
                   /\ HasVault(Unwrap(client'))
                   /\ TokenOf(Unwrap(client')) = TokenOf(Unwrap(client))]_vars

\* The token is VAULT_TOKEN's value and no other source was touched, with a
\* Kubernetes role configured.
C10_Witness ==
    /\ IsSome(client)
    /\ HasVault(Unwrap(client))
    /\ TokenOf(Unwrap(client)) = "token-from-env"
    /\ tokenLog = <<>>
    /\ "VAULT_KUBERNETES_ROLE" \in DOMAIN env
    /\ "VAULT_TOKEN" \in DOMAIN env

(***************************************************************************)
(* Properties of the process-wide client (SpecGlobal).                     *)
(***************************************************************************)
InClient(p) == pc[p] \in {"init", "loop", "fetch", "done"}

\* C5 as stated: resolutions through the process-wide client never send a
\* second GET for a store path, however the tasks interleave.
C5_OneGetUnderInterleaving ==
    IsSome(client) =>
       \A i \in VaultIdx : \A path \in StorePaths : Count(Backends[i].gets, path) <= 1

\* C5, amended: the check, fetch and insert steps of two concurrent
\* resolutions never overlap: a task is inside with_client only while it
\* holds the lock, so at most one GET is on its way at a time; a GET is
\* sent for a path only while the path is not cached, so a second GET for
\* the path follows only a failed one, and at most one GET for it succeeds.
C5_FetchesDoNotOverlap ==
    /\ \A p \in Procs : InClient(p) => lock = p
    /\ Cardinality({p \in Procs : pc[p] = "fetch"}) <= 1
    /\ IsSome(client) =>
          \A i \in VaultIdx :
             /\ \A path \in StorePaths : Count(Backends[i].oks, path) <= 1
             /\ \A p \in Procs : \A path \in DOMAIN Backends[i].secrets : ~Fetching(p, i, path)

\* One task's GET for secret/foo is on its way for one key while the other
\* task waits for the lock with another key of the same path, not cached.
C5_Witness ==
    \E p, q \in Procs :
       /\ pc[p] = "fetch"
       /\ pc[q] = "lock"
       /\ req[p] = [kind |-> "var", name |-> "FOO_USERNAME"]
       /\ req[q] = [kind |-> "var", name |-> "FOO_PASSWORD"]
       /\ Unwrap(ReqLoc(p)).path = Unwrap(ReqLoc(q)).path
       /\ Unwrap(ReqLoc(p)).key # Unwrap(ReqLoc(q)).key
       /\ \A i \in VaultIdx : Backends[i].secrets = <<>>

(***************************************************************************)
(* Properties of token acquisition (Spec).                                 *)
(***************************************************************************)
\* A step in which Client::new ran and ended otherwise than the last time.
Acquired == ~IsSome(client) /\ lastNew' # lastNew

NewRes == Unwrap(lastNew').res

InLog(x, log) == \E k \in 1..Len(log) : log[k] = x

\* default_token was called: the address is there and parses, and the
\* Secretfile was loaded.
TokenTried ==
    /\ "VAULT_ADDR" \in DOMAIN env
    /\ env["VAULT_ADDR"] = GoodAddr
    /\ NewRes # Err(FileRead("Secretfile", Io("Secretfile")))

\* C11 as stated: without VAULT_TOKEN the token file is read exactly when no
\* role is configured.
C11_TokenFileReadIffNoRole ==
    [][(Acquired /\ TokenTried /\ "VAULT_TOKEN" \notin DOMAIN env) =>
          (InLog("read token file", tokenLog') <=> "VAULT_KUBERNETES_ROLE" \notin DOMAIN env)]_vars

\* C11, amended: without VAULT_TOKEN, a configured role means the JWT is
\* read and, if it was, the login posted, and a failure of either ends the
\* acquisition with an error, the token file never read; without a role
\* neither the JWT is read nor the login posted, and the token file is read
\* unless there is no home directory, which ends the acquisition with
\* NoHomeDirectory and no file read.
C11_RoleFailureIsTerminal ==
    [][(Acquired /\ TokenTried /\ "VAULT_TOKEN" \notin DOMAIN env) =>
          IF "VAULT_KUBERNETES_ROLE" \in DOMAIN env
          THEN /\ ~InLog("read token file", tokenLog')
               /\ IF NewRes.ok
                  THEN /\ tokenLog' = <<"read jwt", "post login">>
                       /\ TokenOf(Unwrap(client')) = "token-from-kubernetes"
                  ELSE /\ tokenLog' \in {<<"read jwt">>, <<"read jwt", "post login">>}
                       /\ NewRes.err.kind = "MissingVaultToken"
                       /\ NewRes.err.source.kind = IF Len(tokenLog') = 1 THEN "FileRead" ELSE "Url"
          ELSE \/ tokenLog' = <<"read token file">>
               \/ /\ tokenLog' = <<>>
                  /\ NewRes = Err(MissingVaultToken(NoHomeDirectory))]_vars

\* A role is configured, the login was posted and failed, and the
\* construction ended with that error without the token file being read.
C11_Witness ==
    /\ IsSome(lastNew)
    /\ ~IsSome(client)
    /\ "VAULT_KUBERNETES_ROLE" \in DOMAIN env
    /\ "VAULT_TOKEN" \notin DOMAIN env
    /\ ~Unwrap(lastNew).res.ok
    /\ Unwrap(lastNew).res.err.kind = "MissingVaultToken"
    /\ Unwrap(lastNew).res.err.source.kind = "Url"
    /\ tokenLog = <<"read jwt", "post login">>

\* The causes default_token can meet.
TokenCauses ==
    {FileRead(KUBERNETES_TOKEN_PATH, Io(KUBERNETES_TOKEN_PATH)), NoHomeDirectory,
     Io("~/.vault-token")}
      \cup {Auth(GoodAddr, "kubernetes", w).err : w \in {w \in Worlds : w.auth # "ok"}}

AtVault(p, i) == pc[p] = "loop" /\ idx[p] = i /\ i \in VaultIdx

\* The step answers err at once: no GET, and no backend changes.
AnswersAtOnce(p, i, e) ==
    /\ pc'[p] # "fetch"
    /\ client' = client
    /\ invoked'[p] = Append(invoked[p], [backend |-> i, res |-> Err(e), get |-> FALSE,
                                     resp |-> None])

\* The last backend task p called and what it answered.
LastCall(p) == invoked[p][Len(invoked[p])]

\* C13: for a Location::Path(path) the Vault backend answers
\* MissingKeyInPath(path) at once: no GET is sent and the cache is as it was.
C13_PathWithoutKeyFails ==
    [][\A p \in Procs : \A i \in 1..MaxBackends :
          (/\ AtVault(p, i)
           /\ req[p].kind = "var"
           /\ req[p].name \in DOMAIN Unwrap(client).secretfile.varmap
           /\ Unwrap(client).secretfile.varmap[req[p].name].tag = "Path"
           /\ Moved(p)) =>
             AnswersAtOnce(p, i,
                MissingKeyInPath(Unwrap(client).secretfile.varmap[req[p].name].path))]_vars

\* FOO_USERNAME2 is at Path("foo_username"): the Vault backend answered
\* MissingKeyInPath without a GET, and has sent none.
C13_Witness ==
    /\ pc[Owner] = "done"
    /\ req[Owner] = [kind |-> "var", name |-> "FOO_USERNAME2"]
    /\ Backends[LastCall(Owner).backend].kind = "vault"
    /\ LastCall(Owner).res = Err(MissingKeyInPath("foo_username"))
    /\ ~LastCall(Owner).get
    /\ Backends[LastCall(Owner).backend].gets = <<>>
    /\ Backends[LastCall(Owner).backend].secrets = <<>>

\* The Secretfile has no entry for the request in the map the request reads.
NoEntry(sf, r) ==
    \/ r.kind = "var" /\ r.name \notin DOMAIN sf.varmap
    \/ r.kind = "file" /\ r.name \notin DOMAIN sf.filemap

\* C14: when the Secretfile has no entry for the name in the map of the
\* request's kind, the Vault backend answers MissingEntry(name) at once: no
\* GET is sent and the cache is as it was.
C14_NoEntryFails ==
    [][\A p \in Procs : \A i \in 1..MaxBackends :
          (AtVault(p, i) /\ NoEntry(Unwrap(client).secretfile, req[p]) /\ Moved(p)) =>
             AnswersAtOnce(p, i, MissingEntry(req[p].name))]_vars

\* var("key.pem") under a Secretfile that has key.pem among its files only:
\* MissingEntry, without a GET.
C14_Witness ==
    /\ pc[Owner] = "done"
    /\ req[Owner] = [kind |-> "var", name |-> "key.pem"]
    /\ "key.pem" \in DOMAIN Unwrap(client).secretfile.filemap
    /\ Backends[LastCall(Owner).backend].kind = "vault"
    /\ LastCall(Owner).res = Err(MissingEntry("key.pem"))
    /\ ~LastCall(Owner).get
    /\ Backends[LastCall(Owner).backend].gets = <<>>

\* C15: when the secret of PathWithKey(path, key), fetched in this step or
\* cached before, has no `key`, the Vault backend answers
\* MissingKeyInSecret(path, key) and the secret is in the cache after the
\* step; from then on a request for any key of the path sends no GET.
C15_MissingKeyKeepsSecret ==
    [][\A p \in Procs : \A i \in VaultIdx :
          LET loc == Unwrap(ReqLoc(p))
              after == Unwrap(client').backends[i]
          IN  /\ (/\ pc[p] \in {"loop", "fetch"}
                  /\ idx[p] = i
                  /\ invoked'[p] # invoked[p]
                  /\ IsSome(ReqLoc(p))
                  /\ loc.tag = "PathWithKey"
                  /\ loc.path \in DOMAIN after.secrets
                  /\ loc.key \notin DOMAIN after.secrets[loc.path].data.map) =>
                    /\ LastCall(p)'.res = Err(MissingKeyInSecret(loc.path, loc.key))
                    /\ LastCall(p)'.backend = i
              /\ (/\ AtVault(p, i)
                  /\ IsSome(ReqLoc(p))
                  /\ loc.tag = "PathWithKey"
                  /\ loc.path \in DOMAIN Backends[i].secrets) =>
                    /\ pc'[p] # "fetch"
                    /\ after.gets = Backends[i].gets]_vars

\* FOO_EXTRA names a key secret/foo lacks: the GET brought the secret, the
\* answer is MissingKeyInSecret and the secret is cached.
C15_Witness ==
    /\ pc[Owner] = "done"
    /\ req[Owner] = [kind |-> "var", name |-> "FOO_EXTRA"]
    /\ LastCall(Owner).res = Err(MissingKeyInSecret("secret/foo", "extra"))
    /\ LastCall(Owner).get
    /\ "secret/foo" \in DOMAIN Backends[LastCall(Owner).backend].secrets
    /\ Backends[LastCall(Owner).backend].gets = [q \in {"secret/foo"} |-> 1]

(***************************************************************************)
(* Properties of the errors callers see.                                   *)
(***************************************************************************)
\* What lib.rs's Client makes of the chain's result for the name asked.
Wrapped(name, res) == IF res.ok THEN res ELSE Err(Credential(name, res.err))

\* C16 as stated: every result of Client::var / Client::file is the chain's
\* value, or Credential with the name asked for around the chain's error.
C16_EveryFailureWrapsChain ==
    \A p \in Procs :
       pc[p] = "done" =>
          /\ IsSome(chainRes[p])
          /\ result[p] = Some(Wrapped(req[p].name, Unwrap(chainRes[p])))

\* C16, amended: the result of Client::var / Client::file is the chain's
\* value, or Credential with the name asked for around the chain's error,
\* except for file with a path that is not Unicode: the chain is not called
\* and the error is Credential, named by the path as display prints it,
\* around NonUnicodePath.
C16_FailureWrapsChainOrPath ==
    \A p \in Procs :
       pc[p] = "done" =>
          IF req[p].kind = "file" /\ req[p].name = NonUnicodeName
          THEN /\ chainRes[p] = None
               /\ invoked[p] = <<>>
               /\ result[p] = Some(Err(Credential("key<U+FFFD>.pem",
                                                  NonUnicodePath(NonUnicodeName))))
          ELSE /\ IsSome(chainRes[p])
               /\ result[p] = Some(Wrapped(req[p].name, Unwrap(chainRes[p])))

\* var("FOO_EXTRA") failed in the Vault backend, the last of the chain: the
\* caller gets Credential("FOO_EXTRA") around MissingKeyInSecret.
C16_Witness ==
    /\ pc[Owner] = "done"
    /\ req[Owner] = [kind |-> "var", name |-> "FOO_EXTRA"]
    /\ chainRes[Owner] = Some(Err(MissingKeyInSecret("secret/foo", "extra")))
    /\ result[Owner] =
          Some(Err(Credential("FOO_EXTRA", MissingKeyInSecret("secret/foo", "extra"))))

\* C17: every error a caller of var / file gets, from the process-wide
\* credentials::var and credentials::file too, is Credential with the name
\* or path asked for, whatever went wrong underneath.
C17_EveryErrorNamesCredential ==
    \A p \in Procs :
       (pc[p] = "done" /\ ~Unwrap(result[p]).ok) =>
          /\ Unwrap(result[p]).err.kind = "Credential"
          /\ Unwrap(result[p]).err.name = PathDisplay(req[p].name)

\* The first credentials::var("FOO_USERNAME") of the process could not get a
\* token, and the caller holds MissingVaultToken with no credential named.
C17_Witness ==
    \E p \in Procs :
       /\ pc[p] = "done"
       /\ req[p] = [kind |-> "var", name |-> "FOO_USERNAME"]
       /\ client = None
       /\ ~Unwrap(result[p]).ok
       /\ Unwrap(result[p]).err.kind = "MissingVaultToken"

(***************************************************************************)
(* Properties of the process-wide client's lock (SpecGlobal).              *)
(***************************************************************************)
\* At most one task is between taking the lock and returning, it holds the
\* lock, and the body runs on a client that is there.
OneInside ==
    /\ \A p \in Procs : InClient(p) => lock = p
    /\ Cardinality({p \in Procs : InClient(p)}) <= 1
    /\ \A p \in Procs : pc[p] \in {"loop", "fetch"} => IsSome(client)

\* C18: one lock spans construct-if-absent and the call: at most one task
\* is between taking the lock and returning; a client is built only by the
\* task that holds the lock and finds none, and once there is a client none
\* is built again, so two first uses never build two; and the body runs only
\* on a client that is there.
C18_LockSpansConstructAndCall ==
    [][/\ OneInside
       /\ OneInside'
       /\ (lastNew' # lastNew \/ tokenLog' # tokenLog \/ IsSome(client) # IsSome(client')) =>
             /\ client = None
             /\ \E p \in Procs : lock = p /\ pc[p] = "init" /\ pc'[p] \in {"loop", "done"}
       /\ IsSome(client) =>
             /\ IsSome(client')
             /\ Unwrap(client').secretfile = Unwrap(client).secretfile
             /\ Kinds(Unwrap(client')) = Kinds(Unwrap(client))]_vars

\* Two first uses at once: one task built the client and runs the body
\* under the lock while the other waits for the lock.
C18_Witness ==
    \E p, q \in Procs :
       /\ pc[p] = "loop"
       /\ lock = p
       /\ pc[q] = "lock"
       /\ IsSome(client)
       /\ invoked[p] = <<>>

(***************************************************************************)
(* Properties of the built-in Secretfile (SpecBuiltIn).                    *)
(***************************************************************************)
\* Task p is inside set_built_in or default, past the lock.
InBuiltIn(p) == pc[p] \in {"sf_in", "sf_out"}

\* Secretfile::default returns in this step, to task p.
DefaultReturns(p) ==
    pc[p] = "sf_in" /\ req[p].kind = "default" /\ pc'[p] = "sf_out"

\* C19 as stated: an override, once installed, stays for the rest of the
\* process and is what every later Secretfile::default returns.
C19_OverrideStaysInstalled ==
    [][IsSome(built_in) =>
          /\ built_in' = built_in
          /\ \A p \in Procs : DefaultReturns(p) => result'[p] = Some(Ok(Unwrap(built_in)))]_vars

\* C19, amended: while an override is installed, Secretfile::default
\* returns it and the Secretfile of the current directory is not read; the
\* override is the one of the last set_built_in, which replaces an earlier
\* one or, with None, clears it, and then default reads the current
\* directory again.  Installs and reads exclude each other: a task is
\* inside set_built_in or default only while it holds the mutex, and the
\* override changes only in the holder's set_built_in.
C19_DefaultReturnsCurrentOverride ==
    [][/\ \A p \in Procs :
             /\ InBuiltIn(p) => builtInLock = p
             /\ InBuiltIn(p)' => builtInLock' = p
             /\ DefaultReturns(p) =>
                   IF IsSome(built_in)
                   THEN result'[p] = Some(Ok(Unwrap(built_in)))
                   ELSE result'[p] \in {Some(Ok(FooSecretfile)),
                                        Some(Err(FileRead("Secretfile", Io("Secretfile"))))}
       /\ built_in' # built_in =>
             \E p \in Procs :
                /\ builtInLock = p
                /\ pc[p] = "sf_in"
                /\ req[p].kind = "set_built_in"
                /\ built_in' = req[p].arg]_vars

\* An override is installed and Secretfile::default has returned it to a
\* task, while the other task waits for the mutex to install another.
C19_Witness ==
    \E p, q \in Procs :
       /\ pc[p] = "sf_out"
       /\ req[p].kind = "default"
       /\ built_in = Some(BuiltInSecretfile)
       /\ result[p] = Some(Ok(BuiltInSecretfile))
       /\ pc[q] = "sf_lock"
       /\ req[q].kind = "set_built_in"

(***************************************************************************)
(* Properties of parsing (SpecParse).                                      *)
(***************************************************************************)
\* What the segments stand for once every reference is replaced by the
\* variable's value.
RECURSIVE ExpectSegs(_, _)
ExpectSegs(segs, e) ==
    IF segs = <<>>
    THEN <<>>
    ELSE (IF Head(segs).t = "lit" THEN Head(segs).s ELSE e[Head(segs).s])
            \o ExpectSegs(Tail(segs), e)

SegsDefined(segs, e) ==
    \A k \in 1..Len(segs) : segs[k].t = "lit" \/ segs[k].s \in DOMAIN e

\* The name an entry is filed under and the location it is given.
ExpectedName(a, e) == ExpectSegs(a.lhs.segs, e)

ExpectedLocation(a, e) ==
    IF IsSome(a.key.key)
    THEN PathWithKey(ExpectSegs(a.path, e), Unwrap(a.key.key))
    ELSE Path(ExpectSegs(a.path, e))

MapOf(sf, kind) == IF kind = "var" THEN sf.varmap ELSE sf.filemap

\* Line k of the text is the entry a.
IsEntry(k, a) == a \in Entries /\ Render(a) = text[k]

\* A later line files an entry of the same kind under the same name.
Overwritten(k, a) ==
    \E k2 \in (k + 1)..Len(text) : \E b \in Entries :
       /\ IsEntry(k2, b)
       /\ b.lhs.kind = a.lhs.kind
       /\ ExpectedName(b, env) = ExpectedName(a, env)

\* Every line is blank, a comment, or an entry whose references are defined.
WellFormedText ==
    \A k \in 1..Len(text) :
       \/ text[k] \in BlankLines
       \/ \E a \in Entries :
             IsEntry(k, a) /\ SegsDefined(a.lhs.segs, env) /\ SegsDefined(a.path, env)

\* The names the entry lines of one kind are filed under.
NamesOf(kind) ==
    {ExpectedName(a, env) :
        a \in {b \in Entries : b.lhs.kind = kind /\ \E k \in 1..Len(text) : IsEntry(k, b)}}

\* C20: a text of blank lines, comments and entries whose references are
\* defined parses; in what a parse returns, the line `NAME path:key` gives
\* vars[NAME] = PathWithKey(I(path), key), `NAME path` gives Path(I(path)),
\* `>file path[:key]` gives the same under files[I(file)], I replacing every
\* $VAR and ${VAR} by the variable's value, and the key is what the line
\* has after the colon, character by character; the maps hold nothing else.
C20_LinesBecomeLocations ==
    IsSome(parsed) =>
       /\ WellFormedText => Unwrap(parsed).ok
       /\ Unwrap(parsed).ok =>
             /\ \A k \in 1..Len(text) : \A a \in Entries :
                   (IsEntry(k, a) /\ ~Overwritten(k, a)) =>
                      /\ ExpectedName(a, env) \in DOMAIN MapOf(Unwrap(parsed).value, a.lhs.kind)
                      /\ MapOf(Unwrap(parsed).value, a.lhs.kind)[ExpectedName(a, env)]
                            = ExpectedLocation(a, env)
             /\ DOMAIN Unwrap(parsed).value.varmap = NamesOf("var")
             /\ DOMAIN Unwrap(parsed).value.filemap = NamesOf("file")

\* `FOO_USERNAME secret/$X:username` with X=bar was parsed, and FOO_USERNAME
\* is at PathWithKey("secret/bar", "username").
C20_Witness ==
    /\ text = <<<<"F", "O", "O", "_", "U", "S", "E", "R", "N", "A", "M", "E", " ", "s", "e", "c", "r", "e", "t", "/", "$", "X", ":", "u", "s", "e", "r", "n", "a", "m", "e">>>>
    /\ NameX \in DOMAIN env
    /\ env[NameX] = <<"b", "a", "r">>
    /\ IsSome(parsed)
    /\ Unwrap(parsed).ok
    /\ Unwrap(parsed).value.varmap[<<"F", "O", "O", "_", "U", "S", "E", "R", "N", "A", "M", "E">>] = PathWithKey(<<"s", "e", "c", "r", "e", "t", "/", "b", "a", "r">>, <<"u", "s", "e", "r", "n", "a", "m", "e">>)

\* The variables the segments refer to.
RefsOf(segs) == {segs[k].s : k \in {j \in 1..Len(segs) : segs[j].t # "lit"}}

\* The variables an entry line hands to interpolate_env, in its path and in
\* its file name, that the environment does not define.
UndefinedIn(a, e) ==
    (RefsOf(a.path) \cup (IF a.lhs.kind = "file" THEN RefsOf(a.lhs.segs) ELSE {})) \ DOMAIN e

\* Line k is blank, a comment, or an entry whose references are defined.
LineParses(k) ==
    \/ text[k] \in BlankLines
    \/ \E a \in Entries :
          IsEntry(k, a) /\ SegsDefined(a.lhs.segs, env) /\ SegsDefined(a.path, env)

\* C21: when the first line that does not parse is an entry whose path or
\* file name refers to a variable the environment does not define, from_str
\* fails with UndefinedEnvironmentVariable naming a variable of that line
\* that is not defined; what is returned is the error alone: no Secretfile,
\* so no string with some references replaced and no entry of that line.
C21_UndefinedVariableFails ==
    IsSome(parsed) =>
       \A k \in 1..Len(text) : \A a \in Entries :
          (/\ IsEntry(k, a)
           /\ UndefinedIn(a, env) # {}
           /\ \A j \in 1..(k - 1) : LineParses(j)) =>
             /\ ~Unwrap(parsed).ok
             /\ DOMAIN Unwrap(parsed) = {"ok", "err"}
             /\ Unwrap(parsed).err.kind = "Secretfile"
             /\ Unwrap(parsed).err.source.kind = "UndefinedEnvironmentVariable"
             /\ Unwrap(parsed).err.source.name \in UndefinedIn(a, env)

\* After a line that parses, `>$Y$X  secret/ssl` was read with X defined and
\* Y not: the parse failed naming Y.
C21_Witness ==
    /\ Len(text) = 2
    /\ LineParses(1)
    /\ text[1] \notin BlankLines
    /\ text[2] = <<">", "$", "Y", "$", "X", " ", " ", "s", "e", "c", "r", "e", "t", "/", "s", "s", "l", " ">>
    /\ DOMAIN env = {NameX}
    /\ parsed = Some(Err(SecretfileErr(UndefinedEnvironmentVariable(NameY))))

\* C22: when the first line that does not parse is neither blank, nor a
\* comment, nor an entry (a name with no path, an entry after leading
\* whitespace), from_str fails with Parse carrying that line character by
\* character, and returns the error alone: no Secretfile with the entries of
\* the lines before it.
C22_UnmatchedLineFails ==
    IsSome(parsed) =>
       \A k \in 1..Len(text) :
          (/\ text[k] \in BadLines
           /\ \A j \in 1..(k - 1) : LineParses(j)) =>
             parsed = Some(Err(SecretfileErr(ParseErr(text[k]))))

\* An entry that parses, then ` B_1 p`: the parse failed with that line.
C22_Witness ==
    /\ Len(text) = 2
    /\ LineParses(1)
    /\ text[1] \notin BlankLines
    /\ text[2] = <<" ", "B", "_", "1", " ", "p">>
    /\ parsed = Some(Err(SecretfileErr(ParseErr(<<" ", "B", "_", "1", " ", "p">>))))

\* The characters of t are none of those of bad.
Without(t, bad) == \A i \in 1..Len(t) : t[i] \notin bad

\* Every file name is non-empty and has no whitespace and no `$`; every path
\* is so too and has no colon.
WritesBack(sf) ==
    /\ \A n \in DOMAIN sf.filemap : n # <<>> /\ Without(n, {" ", "\t", "$"})
    /\ \A l \in {sf.varmap[n] : n \in DOMAIN sf.varmap}
                 \cup {sf.filemap[n] : n \in DOMAIN sf.filemap} :
          l.path # <<>> /\ Without(l.path, {" ", "\t", "$", ":"})

\* C23 as stated: whenever a text parses, writing its entries back as lines
\* and parsing those gives the same names, paths and keys.
C23_RoundTrip ==
    (IsSome(parsed) /\ Unwrap(parsed).ok) =>
       RoundTrip(Unwrap(parsed).value, env) = Unwrap(parsed)

\* C23, amended: it does whenever the file names and paths the parse
\* returned are non-empty and free of whitespace and `$`, and the paths free
\* of colons.
C23_RoundTripOfPlainPaths ==
    (IsSome(parsed) /\ Unwrap(parsed).ok /\ WritesBack(Unwrap(parsed).value)) =>
       RoundTrip(Unwrap(parsed).value, env) = Unwrap(parsed)

\* A comment and `>$X/key.pem secret/ssl:$X:j` were parsed with X = a:b: the
\* file a:b/key.pem is at secret/ssl with the key `$X:j`, and is again after
\* the round trip.
C23_Witness ==
    /\ Len(text) = 2
    /\ text[1] = <<" ", " ", "#", " ", "c">>
    /\ text[2] = <<">", "$", "X", "/", "k", "e", "y", ".", "p", "e", "m", " ", "s", "e", "c", "r", "e", "t", "/", "s", "s", "l", ":", "$", "X", ":", "j">>
    /\ DOMAIN env = {NameX}
    /\ IsSome(parsed)
    /\ Unwrap(parsed).ok
    /\ WritesBack(Unwrap(parsed).value)
    /\ DOMAIN Unwrap(parsed).value.filemap = {<<"a", ":", "b", "/", "k", "e", "y", ".", "p", "e", "m">>}
    /\ RoundTrip(Unwrap(parsed).value, env) = Unwrap(parsed)

(***************************************************************************)
(* The configuration of a client (Spec).                                   *)
(***************************************************************************)
\* What a backend of the list is, whatever its cache holds.
Member(b) ==
    IF b.kind = "vault" THEN [kind |-> "vault", addr |-> b.addr, token |-> b.token] ELSE b

\* The Secretfile of a client and the backends of its chain, in order.
Configuration(c) ==
    [secretfile |-> c.secretfile,
     backends |-> [i \in 1..Len(c.backends) |-> Member(c.backends[i])]]

\* C24: once a client is built, no step (a call of var or file, the turns
\* of the chain's loop with their answers and errors, a GET and its
\* response, a change of the environment, a rotation of the secrets)
\* changes its Secretfile's maps or the backends of its chain and their
\* order.
C24_ConfigurationIsKept ==
    [][IsSome(client) =>
          /\ IsSome(client')
          /\ Configuration(Unwrap(client')) = Configuration(Unwrap(client))]_vars

\* A client with the env and the Vault backend, built for one address, has
\* fetched a secret and answered a request, and VAULT_ADDR is another
\* address by now.
C24_Witness ==
    /\ IsSome(client)
    /\ Kinds(Unwrap(client)) = <<"env", "vault">>
    /\ Unwrap(client).backends[2].addr = GoodAddr
    /\ Unwrap(client).backends[2].secrets # <<>>
    /\ "VAULT_ADDR" \in DOMAIN env
    /\ env["VAULT_ADDR"] = BadAddr
    /\ pc[Owner] = "done"
    /\ IsSome(result[Owner])

(***************************************************************************)
(* The responses to a GET (Spec).                                          *)
(***************************************************************************)
\* t is b without the whitespace at its two ends.
IsTrimOf(t, b) ==
    \E i \in 1..(Len(b) + 1) : \E j \in 0..Len(b) :
       /\ t = SubSeq(b, i, j)
       /\ \A k \in 1..(i - 1) : b[k] \in {" ", "\n", "\t"}
       /\ \A k \in (j + 1)..Len(b) : b[k] \in {" ", "\n", "\t"}
       /\ t = <<>> \/ (t[1] \notin {" ", "\n", "\t"} /\ t[Len(t)] \notin {" ", "\n", "\t"})

\* The calls of task p's trace that sent a GET and got a status that is not
\* 2xx back.
NonSuccessCalls(p) ==
    {k \in 1..Len(invoked[p]) :
        /\ invoked[p][k].get
        /\ Unwrap(invoked[p][k].resp).kind \in {"http", "cut"}
        /\ ~(Unwrap(invoked[p][k].resp).status \in 200..299)}

\* The URL of the GET that call e of task p sent.
UrlOf(p, e) == <<Backends[e.backend].addr, "v1/", Unwrap(ReqLoc(p)).path>>

\* Call e failed with Url for the URL requested, wrapping UnexpectedHttpStatus
\* with the status of the response.
FailedWithStatus(p, e) ==
    /\ ~e.res.ok
    /\ e.res.err.kind = "Url"
    /\ e.res.err.url = UrlOf(p, e)
    /\ e.res.err.source.kind = "UnexpectedHttpStatus"
    /\ e.res.err.source.status = Unwrap(e.resp).status

\* C25 as stated: every GET answered with a status that is not 2xx fails
\* with UnexpectedHttpStatus carrying the status and the trimmed body,
\* wrapped with the URL.
C25_AnyNonSuccessStatus ==
    \A p \in Procs : \A k \in NonSuccessCalls(p) :
       /\ FailedWithStatus(p, invoked[p][k])
       /\ Unwrap(invoked[p][k].resp).kind = "http" =>
             IsTrimOf(invoked[p][k].res.err.source.body, Unwrap(invoked[p][k].resp).body)

\* C25, amended: it does when the body of the response can be read, also
\* when the body is the JSON of a secret; when the body cannot be read the
\* GET fails with the error of the read, wrapped with the URL.
C25_NonSuccessStatusWithBody ==
    \A p \in Procs : \A k \in NonSuccessCalls(p) :
       IF Unwrap(invoked[p][k].resp).kind = "http"
       THEN /\ FailedWithStatus(p, invoked[p][k])
            /\ IsTrimOf(invoked[p][k].res.err.source.body, Unwrap(invoked[p][k].resp).body)
       ELSE /\ ~invoked[p][k].res.ok
            /\ invoked[p][k].res.err.kind = "Url"
            /\ invoked[p][k].res.err.url = UrlOf(p, invoked[p][k])
            /\ invoked[p][k].res.err.source.kind = "Other"

\* The GET for secret/foo was answered 503 with the JSON of the secret
\* between whitespace: the request failed with the status and that JSON
\* without the whitespace.
C25_Witness ==
    /\ pc[Owner] = "done"
    /\ invoked[Owner] # <<>>
    /\ LastCall(Owner).get
    /\ Unwrap(LastCall(Owner).resp).kind = "http"
    /\ Unwrap(LastCall(Owner).resp).status = 503
    /\ IsSome(Unwrap(LastCall(Owner).resp).json)
    /\ LastCall(Owner).res
          = Err(UrlErr(<<GoodAddr, "v1/", "secret/foo">>,
                       UnexpectedHttpStatus(503, <<"secret json">>)))

(***************************************************************************)
(* The two shapes of a secret (Spec).                                      *)
(***************************************************************************)
\* The keys looked up: those the server holds, and one it does not.
CheckedKeys == UNION {ServerKeys(path) : path \in StorePaths} \cup {"no_such_key"}

\* What the body of `path` in generation g gives for key k when it arrives
\* in the given shape.
GetFromShape(path, g, shape, k) ==
    SecretDataGet(Unwrap(DecodeSecret(ServerJson(path, g, shape))).data, k)

\* What the key-value map of `path` in generation g holds for key k.
GetFromMap(path, g, k) ==
    IF k \in ServerKeys(path) THEN Some(StrGen(k, g)) ELSE None

\* The secret sec, cached for `path`, gives for every key what both shapes
\* of the map of generation g give, which is what the map holds.
SameInBothShapes(sec, path, g) ==
    \A k \in CheckedKeys :
       /\ SecretDataGet(sec.data, k) = GetFromMap(path, g, k)
       /\ GetFromShape(path, g, "Generic", k) = GetFromMap(path, g, k)
       /\ GetFromShape(path, g, "KVv2", k) = GetFromMap(path, g, k)

\* Call e of task p was for a key of a secret the Vault backend holds.
OfCachedSecret(p, e) ==
    /\ e.backend \in VaultIdx
    /\ IsSome(ReqLoc(p))
    /\ Unwrap(ReqLoc(p)).tag = "PathWithKey"
    /\ Unwrap(ReqLoc(p)).path \in DOMAIN Backends[e.backend].secrets

\* The answer to a request for `key` from the key-value map m of `path`.
AnswerFromMap(m, path, key) ==
    IF key \in DOMAIN m THEN Ok(m[key]) ELSE Err(MissingKeyInSecret(path, key))

\* C26: a secret in the cache, whether it arrived as {data: m} or as
\* {data: {data: m}}, gives for every key what the other shape of the same
\* map gives, the value m holds or nothing; and what the backend answers
\* for a key of a cached secret is read from the map alone, the same for
\* both shapes.
C26_ShapesGiveTheSameBundle ==
    /\ \A i \in VaultIdx : \A path \in DOMAIN Backends[i].secrets :
          \E g \in 0..MaxGen : SameInBothShapes(Backends[i].secrets[path], path, g)
    /\ \A p \in Procs : \A k \in 1..Len(invoked[p]) :
          OfCachedSecret(p, invoked[p][k]) =>
             invoked[p][k].res
                = AnswerFromMap(Backends[invoked[p][k].backend]
                                   .secrets[Unwrap(ReqLoc(p)).path].data.map,
                                Unwrap(ReqLoc(p)).path, Unwrap(ReqLoc(p)).key)

\* secret/foo arrived in the nested shape and FOO_USERNAME was answered
\* with its username.
C26_Witness ==
    /\ pc[Owner] = "done"
    /\ req[Owner] = [kind |-> "var", name |-> "FOO_USERNAME"]
    /\ invoked[Owner] # <<>>
    /\ LastCall(Owner).get
    /\ Unwrap(Unwrap(LastCall(Owner).resp).json).data.shape = "KVv2"
    /\ LastCall(Owner).res = Ok(StrGen("username", gen))
    /\ result[Owner] = Some(Ok(StrGen("username", gen)))

(***************************************************************************)
(* Failed fetches and the cache (Spec).                                    *)
(***************************************************************************)
\* The response brings no secret: nothing came back, the status is not 2xx,
\* or the body does not decode.
BringsNoSecret(resp) ==
    \/ resp.kind \in {"transport", "cut"}
    \/ ~(resp.status \in 200..299)
    \/ ~IsSome(resp.json)

\* Task p's GET ends in this step.
FetchEnds(p) == pc[p] = "fetch" /\ pc'[p] # "fetch"

\* Task p's request is for a key under a path the Vault backend i does not
\* hold.
AsksUncached(p, i) ==
    /\ AtVault(p, i)
    /\ IsSome(ReqLoc(p))
    /\ Unwrap(ReqLoc(p)).tag = "PathWithKey"
    /\ Unwrap(ReqLoc(p)).path \notin DOMAIN Backends[i].secrets

\* C27: the step that ends a GET with a response bringing no secret
\* answers with an error and leaves the backend's cache as it was, without
\* the path; the paths of the cache are those a GET brought a secret for;
\* and a request for a key under a path the cache does not hold, also one
\* whose earlier GETs failed, sends a GET.
C27_FailedFetchIsNotCached ==
    [][
        /\ \A p \in Procs :
             (FetchEnds(p) /\ BringsNoSecret(Unwrap(LastCall(p)'.resp))) =>
                /\ ~LastCall(p)'.res.ok
                /\ Backends'[idx[p]].secrets = Backends[idx[p]].secrets
                /\ Unwrap(ReqLoc(p)).path \notin DOMAIN Backends'[idx[p]].secrets
        /\ \A i \in VaultIdx :
             DOMAIN Backends[i].secrets
                = {path \in DOMAIN Backends[i].oks : Backends[i].oks[path] > 0}
        /\ \A p \in Procs : \A i \in VaultIdx :
             (AsksUncached(p, i) /\ Moved(p)) =>
                /\ pc'[p] = "fetch"
                /\ Backends'[i].gets[Unwrap(ReqLoc(p)).path]
                      = IF Count(Backends[i].gets, Unwrap(ReqLoc(p)).path) < MaxGets
                        THEN Count(Backends[i].gets, Unwrap(ReqLoc(p)).path) + 1
                        ELSE MaxGets
      ]_vars

\* A GET for secret/foo has failed, nothing is cached for the path, and a
\* second GET for it is on its way.
C27_Witness ==
    /\ pc[Owner] = "fetch"
    /\ Unwrap(ReqLoc(Owner)).path = "secret/foo"
    /\ Count(Backends[idx[Owner]].gets, "secret/foo") = 2
    /\ Count(Backends[idx[Owner]].oks, "secret/foo") = 0
    /\ "secret/foo" \notin DOMAIN Backends[idx[Owner]].secrets

(***************************************************************************)
(* Construction with the remote store enabled (Spec).                      *)
(***************************************************************************)
\* C28: with VAULT_ADDR set, Client::new either returns a client whose
\* chain has the Vault backend, or fails: it fails for an address that
\* does not parse and whenever no token is obtained, with allow_override
\* true as with false, and never returns a chain of the env backend alone.
\* Without a client nothing is resolved: no call of var or file is under
\* way, whatever the environment defines.
C28_NoChainWithoutVault ==
    [][
        /\ (Acquired /\ IsEnabled(env)) =>
              IF IsSome(client')
              THEN /\ NewRes.ok
                   /\ HasVault(Unwrap(client'))
                   /\ env["VAULT_ADDR"] # BadAddr
              ELSE /\ ~NewRes.ok
                   /\ NewRes.err.kind \in {"UnparseableUrl", "MissingVaultToken", "FileRead"}
                   /\ NewRes.err.kind = "FileRead" =>
                         ~IsSome(Unwrap(lastNew').options.secretfile)
        /\ (Acquired /\ IsEnabled(env) /\ env["VAULT_ADDR"] = BadAddr) => ~IsSome(client')
        /\ ~IsSome(client') => \A p \in Procs : pc'[p] = "idle" /\ result'[p] = None
      ]_vars

\* Client::new with a Secretfile and allow_override true has failed for want
\* of a token, the address being good and FOO_USERNAME defined: there is no
\* client.
C28_Witness ==
    /\ ~IsSome(client)
    /\ IsSome(lastNew)
    /\ Unwrap(lastNew).options.allow_override
    /\ IsSome(Unwrap(lastNew).options.secretfile)
    /\ ~Unwrap(lastNew).res.ok
    /\ Unwrap(lastNew).res.err.kind = "MissingVaultToken"
    /\ "VAULT_ADDR" \in DOMAIN env
    /\ env["VAULT_ADDR"] = GoodAddr
    /\ "FOO_USERNAME" \in DOMAIN env

(***************************************************************************)
(* Construction of the process-wide client (SpecGlobal).                   *)
(***************************************************************************)
\* Task p, holding the lock, passes line 175 of with_client in this step.
PassesInit(p) == pc[p] = "init" /\ Moved(p)

\* An error of this kind is one Client::default can end with in the
\* environment as it is now.
FailsNow(kind) ==
    \/ kind = "FileRead"
    \/ /\ kind = "UnparseableUrl"
       /\ "VAULT_ADDR" \in DOMAIN env
       /\ env["VAULT_ADDR"] = BadAddr
    \/ /\ kind = "MissingVaultToken"
       /\ "VAULT_ADDR" \in DOMAIN env
       /\ env["VAULT_ADDR"] = GoodAddr
       /\ "VAULT_TOKEN" \notin DOMAIN env

\* C29: a call that finds no client constructs one, the first call and
\* every call after a failed construction alike, in the environment as it
\* is then.  If the construction fails the call ends with its error, no
\* backend was called and there is still no client; if it succeeds the body
\* runs on the new client.  A call that finds a client runs the body on it,
\* and once there is a client there is always that client and nothing is
\* constructed again.
C29_ConstructionIsRetried ==
    [][
        /\ \A p \in Procs :
              (PassesInit(p) /\ ~IsSome(client)) =>
                 /\ IsSome(lastNew')
                 /\ Unwrap(lastNew').options = OptionsDefault
                 /\ IF NewRes.ok
                    THEN /\ IsSome(client')
                         /\ pc'[p] = "loop"
                         /\ invoked'[p] = <<>>
                    ELSE /\ ~IsSome(client')
                         /\ FailsNow(NewRes.err.kind)
                         /\ pc'[p] = "done"
                         /\ result'[p] = Some(NewRes)
                         /\ invoked'[p] = <<>>
                         /\ chainRes'[p] = None
        /\ \A p \in Procs :
              (PassesInit(p) /\ IsSome(client)) =>
                 /\ pc'[p] = "loop"
                 /\ client' = client
        /\ IsSome(client) =>
              /\ IsSome(client')
              /\ Configuration(Unwrap(client')) = Configuration(Unwrap(client))
              /\ lastNew' = lastNew
              /\ tokenLog' = tokenLog
      ]_vars

\* An earlier call ended with the error of a construction that failed for
\* an address that does not parse; the address is good by now, there is
\* still no client, and a later call holds the lock and is about to
\* construct one.
C29_Witness ==
    \E p \in Procs :
       /\ pc[p] = "init"
       /\ lock = p
       /\ ~IsSome(client)
       /\ IsSome(lastNew)
       /\ Unwrap(lastNew).res = Err(UnparseableUrl(BadAddr))
       /\ "VAULT_ADDR" \in DOMAIN env
       /\ env["VAULT_ADDR"] = GoodAddr

(***************************************************************************)
(* The lock of the process-wide client (SpecGlobalFair).                   *)
(***************************************************************************)
\* Task p leaves with_client in this step.
Leaves(p) == pc[p] = "done" /\ pc'[p] = "idle"

\* C30: the lock is held by a task inside with_client only, and the step
\* in which its holder leaves with_client frees it, whether the call ends
\* with the error of the construction, with an error of the backends or
\* with a value; so a call that waits for the lock acquires it, and a call
\* that has it completes.
C30_LockIsReleased ==
    /\ [][\A p \in Procs : (Leaves(p) /\ lock = p) => lock' = 0]_vars
    /\ [](lock # 0 => pc[lock] \in {"init", "loop", "fetch", "done"})
    /\ \A p \in Procs : (pc[p] = "lock") ~> (lock = p)
    /\ \A p \in Procs : (lock = p) ~> (pc[p] = "idle" /\ lock # p)

\* A call waits for the lock while the call that holds it is about to leave
\* with the error of a failed construction.
C30_Witness ==
    \E p, q \in Procs :
       /\ pc[p] = "lock"
       /\ lock = q
       /\ pc[q] = "done"
       /\ ~IsSome(client)
       /\ IsSome(result[q])
       /\ ~Unwrap(result[q]).ok
       /\ invoked[q] = <<>>

(***************************************************************************)
(* The Secretfile of the process-wide client (SpecGlobalBuiltIn).          *)
(***************************************************************************)
\* The Secretfile Secretfile::default returns now, where it returns one.
DefaultNow == IF IsSome(built_in) THEN Unwrap(built_in) ELSE FooSecretfile

\* C31: the process-wide client takes the Secretfile that
\* Secretfile::default returns at its construction, the override if one is
\* set by then; once the client exists its Secretfile is the same after
\* every step, set_built_in installing, replacing or clearing the override
\* included, and the Vault backend looks each request up in that
\* Secretfile: a request it has a location for is fetched or answered from
\* the cache, a request it has none for fails there.
C31_SecretfileIsCaptured ==
    [][
        /\ Built => Unwrap(client').secretfile = DefaultNow
        /\ IsSome(client) =>
              /\ IsSome(client')
              /\ Unwrap(client').secretfile = Unwrap(client).secretfile
        /\ \A p \in Procs : \A i \in VaultIdx :
              (AtVault(p, i) /\ Moved(p)) =>
                 IF IsSome(ReqLoc(p))
                 THEN \/ pc'[p] = "fetch"
                      \/ /\ Len(invoked'[p]) = Len(invoked[p]) + 1
                         /\ ~LastCall(p)'.get
                 ELSE /\ pc'[p] # "fetch"
                      /\ Len(invoked'[p]) = Len(invoked[p]) + 1
                      /\ ~LastCall(p)'.res.ok
      ]_vars

\* The client was constructed on the Secretfile of the current directory;
\* an empty Secretfile was built in afterwards, and a call for FOO_PASSWORD
\* was still answered by the store.
C31_Witness ==
    \E p \in Procs :
       /\ IsSome(client)
       /\ Unwrap(client).secretfile = FooSecretfile
       /\ built_in = Some(EmptySecretfile)
       /\ pc[p] = "done"
       /\ req[p] = [kind |-> "var", name |-> "FOO_PASSWORD"]
       /\ IsSome(result[p])
       /\ Unwrap(result[p]).ok
       /\ Len(invoked[p]) > 0
       /\ LastCall(p).get

(***************************************************************************)
(* Names defined more than once (SpecParse).                               *)
(***************************************************************************)
\* Line k2 is the entry b, of the kind of the entry a of an earlier line
\* and filed under the same name, and no later line files an entry under
\* that name.
LastOfSeveral(a, k2, b) ==
    /\ IsEntry(k2, b)
    /\ b.lhs.kind = a.lhs.kind
    /\ ExpectedName(b, env) = ExpectedName(a, env)
    /\ ~Overwritten(k2, b)

\* C32: a text all of whose lines parse, two or more of them entries of
\* one kind under one name (for files: one file path once the references
\* are replaced), parses; the name is a key of its map once, with the
\* location of the last of these lines, and the map has as many keys as
\* the lines have different names.
C32_LastDefinitionIsKept ==
    (IsSome(parsed) /\ \A k \in 1..Len(text) : LineParses(k)) =>
       /\ Unwrap(parsed).ok
       /\ \A k1 \in 1..Len(text) : \A a \in Entries :
             IsEntry(k1, a) =>
                \A k2 \in (k1 + 1)..Len(text) : \A b \in Entries :
                   LastOfSeveral(a, k2, b) =>
                      /\ ExpectedName(b, env) \in DOMAIN MapOf(Unwrap(parsed).value, b.lhs.kind)
                      /\ MapOf(Unwrap(parsed).value, b.lhs.kind)[ExpectedName(b, env)]
                            = ExpectedLocation(b, env)
                      /\ Cardinality(DOMAIN MapOf(Unwrap(parsed).value, b.lhs.kind))
                            = Cardinality(NamesOf(b.lhs.kind))

\* `>$X/key.pem secret/ssl ` and then `>$X/key.pem secret/ssl:username`,
\* with X=bar, were parsed: the files have the one path bar/key.pem, at
\* secret/ssl with the key username.
C32_Witness ==
    /\ Len(text) = 2
    /\ text[1] = <<">", "$", "X", "/", "k", "e", "y", ".", "p", "e", "m", " ", "s", "e", "c", "r", "e", "t", "/", "s", "s", "l", " ">>
    /\ text[2] = <<">", "$", "X", "/", "k", "e", "y", ".", "p", "e", "m", " ", "s", "e", "c", "r", "e", "t", "/", "s", "s", "l", ":", "u", "s", "e", "r", "n", "a", "m", "e">>
    /\ NameX \in DOMAIN env
    /\ env[NameX] = <<"b", "a", "r">>
    /\ IsSome(parsed)
    /\ Unwrap(parsed).ok
    /\ DOMAIN Unwrap(parsed).value.filemap = {<<"b", "a", "r", "/", "k", "e", "y", ".", "p", "e", "m">>}
    /\ Unwrap(parsed).value.filemap[<<"b", "a", "r", "/", "k", "e", "y", ".", "p", "e", "m">>]
          = PathWithKey(<<"s", "e", "c", "r", "e", "t", "/", "s", "s", "l">>, <<"u", "s", "e", "r", "n", "a", "m", "e">>)

====
